---- MODULE Spec2Model ----
(***************************************************************************)
(* State-machine model of the Chatify server (src/src/Chatify.ts): the     *)
(* in-memory stores (users, messages, groups, userSockets, typingUsers),   *)
(* the per-socket fields (user, rate-limit window, typing timer, rooms)    *)
(* and one action per Socket.IO event handler, timer callback or public    *)
(* method.  Time is a discrete clock `now`; Date.now() and new Date() read *)
(* it.  The variable `last` records the handler that ran last, the         *)
(* acknowledgment it gave and the events it emitted.                       *)
(***************************************************************************)
EXTENDS Integers, Sequences, FiniteSets, TLC

(* ------------------------------ bounds --------------------------------- *)
MaxSockets == 2
MaxMsgs == 2
MaxGroups == 1
MaxMembers == 2
MaxTime == 3

Sockets == 1..MaxSockets
UserIds == 1..MaxSockets
GroupIds == 1..MaxGroups
MsgIds == 1..MaxMsgs

NoUser == 0
NoGroup == 0
SystemId == -1
Unset == -1
EmptyString == -2

VARIABLES config, now, sockState, sockUser, rateLimitCount, rateLimitReset,
          typingTimer, rooms, users, userSockets, messages, groups,
          typingUsers, last

vars == <<config, now, sockState, sockUser, rateLimitCount, rateLimitReset,
          typingTimer, rooms, users, userSockets, messages, groups,
          typingUsers, last>>

sockVars == <<sockState, sockUser, rateLimitCount, rateLimitReset, typingTimer, rooms>>

(* --------------------------- configuration ----------------------------- *)
DefaultConfig ==
  [enableTypingIndicator |-> TRUE, enableOnlineStatus |-> TRUE,
   enableMessageDelivery |-> TRUE, enableGroups |-> TRUE,
   enableAuthentication |-> FALSE, typingTimeout |-> 3000,
   messageHistory |-> TRUE, maxMessageHistory |-> 1000,
   rateLimiting |-> [enabled |-> TRUE, maxMessages |-> 30, timeWindow |-> 60000]]

\* new Chatify(io, config, authConfig): { ...defaults, ...config }
WithConfig(auth, timeout, maxMessages, timeWindow) ==
  [DefaultConfig EXCEPT !.enableAuthentication = auth,
                        !.typingTimeout = timeout,
                        !.rateLimiting = [enabled |-> TRUE, maxMessages |-> maxMessages,
                                          timeWindow |-> timeWindow]]

(* ------------------------------ helpers -------------------------------- *)
Range(seq) == {seq[i] : i \in 1..Len(seq)}

RECURSIVE Filter(_, _)
\* Array.prototype.filter(id => id !== x)
Filter(seq, x) ==
  IF seq = <<>> THEN <<>>
  ELSE IF Head(seq) = x THEN Filter(Tail(seq), x)
       ELSE <<Head(seq)>> \o Filter(Tail(seq), x)

SeqsUpTo(S, n) == UNION {[1..k -> S] : k \in 0..n}

NoTimer == [armed |-> FALSE, groupId |-> NoGroup, due |-> 0]

NoSuchUser == [known |-> FALSE, isOnline |-> FALSE, lastSeen |-> Unset]

\* connections currently attached to the Socket.IO namespace
OpenSockets == {t \in Sockets : sockState[t] = "open"}

\* one outbound emit: its event name, the connections it reaches, its payload
Em(name, to, userId, groupId, msgId, isTyping) ==
  [name |-> name, to |-> to, userId |-> userId, groupId |-> groupId,
   msgId |-> msgId, isTyping |-> isTyping, users |-> {}, list |-> <<>>]

\* io.emit / socket.broadcast.emit / io.to(room) / socket.to(room) targets
ToAll(open) == open
ToOthers(open, s) == open \ {s}
ToRoom(open, rm, g) == {t \in open : g \in rm[t]}
ToRoomExcept(open, rm, g, s) == {t \in open : g \in rm[t]} \ {s}

\* the record kept of the handler that ran last
Ran(event, s, groupId, ack, error, emits) ==
  [event |-> event, socket |-> s, groupId |-> groupId, ack |-> ack,
   error |-> error, emits |-> emits]

\* emitOnlineUsers(): io.emit('status:update', users.filter(isOnline))
EmitOnlineUsers(us, open) ==
  [Em("status:update", ToAll(open), NoUser, NoGroup, 0, FALSE)
     EXCEPT !.users = {u \in UserIds : us[u].known /\ us[u].isOnline}]

\* a sort by timestamp that is not stable: among equal timestamps the later
\* element comes first
SortTiesReversed(seq) ==
  LET n == Len(seq)
      Before(i) == {j \in 1..n : \/ seq[j].timestamp < seq[i].timestamp
                                 \/ seq[j].timestamp = seq[i].timestamp /\ j > i}
  IN [k \in 1..n |-> seq[CHOOSE i \in 1..n : Cardinality(Before(i)) = k - 1]]

\* Array.prototype.sort((a, b) => a.timestamp - b.timestamp), a stable sort:
\* an element goes after those with a smaller timestamp and after the earlier
\* ones with the same timestamp
SortByTimestamp(seq) ==
  LET n == Len(seq)
      Before(i) == {j \in 1..n : \/ seq[j].timestamp < seq[i].timestamp
                                 \/ seq[j].timestamp = seq[i].timestamp /\ j < i}
  IN [k \in 1..n |-> seq[CHOOSE i \in 1..n : Cardinality(Before(i)) = k - 1]]

\* a slice that keeps the head of the array, slice(0, n)
SliceFirst(seq, n) ==
  IF Len(seq) <= n THEN seq ELSE SubSeq(seq, 1, n)

\* Array.prototype.slice(-n)
SliceLast(seq, n) ==
  IF Len(seq) <= n THEN seq ELSE SubSeq(seq, Len(seq) - n + 1, Len(seq))

\* sendMessageHistory without its filter on the groups of the user
SendWholeHistory(s, u, msgs, grps, cfg) ==
  LET sorted == SortByTimestamp(msgs)
      hist == SliceLast(sorted, cfg.maxMessageHistory)
  IN [Em("message:history", {s}, u, NoGroup, 0, FALSE)
        EXCEPT !.list = [i \in 1..Len(hist) |-> hist[i].id]]

\* sendMessageHistory(socket, userId)
SendMessageHistory(s, u, msgs, grps, cfg) ==
  LET groupIds == {g \in 1..Len(grps) : u \in Range(grps[g].members)}
      relevant == SelectSeq(msgs, LAMBDA m : m.groupId = NoGroup \/ m.groupId \in groupIds)
      sorted == SortByTimestamp(relevant)
      hist == SliceLast(sorted, cfg.maxMessageHistory)
  IN [Em("message:history", {s}, u, NoGroup, 0, FALSE)
        EXCEPT !.list = [i \in 1..Len(hist) |-> hist[i].id]]

\* getMessages(groupId?)
getMessages(groupId) ==
  SortByTimestamp(SelectSeq(messages, LAMBDA m : m.groupId = groupId))

\* a call of the public getMessages(groupId?): the returned array, by message id
GetMessages(groupId) ==
  /\ last' = Ran("getMessages", 0, groupId, "none", "",
        << [Em("getMessages", {}, NoUser, groupId, 0, FALSE)
              EXCEPT !.list = [i \in 1..Len(getMessages(groupId)) |->
                                 getMessages(groupId)[i].id]] >>)
  /\ UNCHANGED <<config, now, sockVars, users, userSockets, messages, groups, typingUsers>>

\* getUsers(): Array.from(this.users.values()), as the set of the user ids
getUsers == {u \in UserIds : users[u].known}

\* getGroups(): Array.from(this.groups.values()), as the list of the group ids
getGroups == [i \in 1..Len(groups) |-> groups[i].id]

\* a call of the public getUsers(); the returned ids are recorded in last
GetUsers ==
  /\ last' = Ran("getUsers", 0, NoGroup, "none", "",
        << [Em("getUsers", {}, NoUser, NoGroup, 0, FALSE) EXCEPT !.users = getUsers] >>)
  /\ UNCHANGED <<config, now, sockVars, users, userSockets, messages, groups, typingUsers>>

\* a call of the public getGroups(); the returned ids are recorded in last
GetGroups ==
  /\ last' = Ran("getGroups", 0, NoGroup, "none", "",
        << [Em("getGroups", {}, NoUser, NoGroup, 0, FALSE) EXCEPT !.list = getGroups] >>)
  /\ UNCHANGED <<config, now, sockVars, users, userSockets, messages, groups, typingUsers>>

(* ------------------------------- Init ---------------------------------- *)
\* a constructor that creates a first group owned by the system
InitWithFirstGroup(cfg) ==
  /\ config = cfg
  /\ now = 0
  /\ sockState = [s \in Sockets |-> "idle"]
  /\ sockUser = [s \in Sockets |-> NoUser]
  /\ rateLimitCount = [s \in Sockets |-> 0]
  /\ rateLimitReset = [s \in Sockets |-> 0]
  /\ typingTimer = [s \in Sockets |-> NoTimer]
  /\ rooms = [s \in Sockets |-> {}]
  /\ users = [u \in UserIds |-> NoSuchUser]
  /\ userSockets = [u \in UserIds |-> 0]
  /\ messages = <<>>
  /\ groups = << [id |-> 1, createdBy |-> SystemId, createdAt |-> 0,
                  members |-> <<>>, admins |-> <<>>] >>
  /\ typingUsers = {}
  /\ last = Ran("init", 0, NoGroup, "none", "", <<>>)

\* the fields the constructor and the class initialisers set
InitWith(cfg) ==
  /\ config = cfg
  /\ now = 0
  /\ sockState = [s \in Sockets |-> "idle"]
  /\ sockUser = [s \in Sockets |-> NoUser]
  /\ rateLimitCount = [s \in Sockets |-> 0]
  /\ rateLimitReset = [s \in Sockets |-> 0]
  /\ typingTimer = [s \in Sockets |-> NoTimer]
  /\ rooms = [s \in Sockets |-> {}]
  /\ users = [u \in UserIds |-> NoSuchUser]
  /\ userSockets = [u \in UserIds |-> 0]
  /\ messages = <<>>
  /\ groups = <<>>
  /\ typingUsers = {}
  /\ last = Ran("init", 0, NoGroup, "none", "", <<>>)

(* ------------------------ connection lifecycle ------------------------- *)
\* verifyToken collaborator: token u names user u, any other token is rejected
VerifyToken(token) == IF token \in UserIds THEN token ELSE NoUser

\* io.on('connection'): rate-limit init, then anonymous admission unless
\* authentication is enabled
Connection(s) ==
  /\ sockState[s] = "idle"
  /\ sockState' = [sockState EXCEPT ![s] = "open"]
  /\ IF config.rateLimiting.enabled
     THEN /\ rateLimitCount' = [rateLimitCount EXCEPT ![s] = 0]
          /\ rateLimitReset' = [rateLimitReset EXCEPT ![s] = now + config.rateLimiting.timeWindow]
     ELSE UNCHANGED <<rateLimitCount, rateLimitReset>>
  /\ IF config.enableAuthentication
     THEN /\ UNCHANGED <<sockUser, users, userSockets>>
          /\ last' = Ran("connection", s, NoGroup, "none", "", <<>>)
     ELSE LET u == s   \* uuidv4(): an id no other connection has
              us == [users EXCEPT ![u] = [known |-> TRUE, isOnline |-> TRUE, lastSeen |-> now]]
              open == OpenSockets \cup {s}
          IN /\ sockUser' = [sockUser EXCEPT ![s] = u]
             /\ users' = us
             /\ userSockets' = [userSockets EXCEPT ![u] = s]
             /\ last' = Ran("connection", s, NoGroup, "none", "",
                   IF config.enableOnlineStatus
                   THEN << Em("status:online", ToOthers(open, s), u, NoGroup, 0, FALSE),
                           EmitOnlineUsers(us, open) >>
                   ELSE <<>>)
  /\ UNCHANGED <<config, now, typingTimer, rooms, messages, groups, typingUsers>>

\* socket.on('auth:login')
AuthLogin(s, token) ==
  /\ sockState[s] = "open"
  /\ config.enableAuthentication
  /\ LET u == VerifyToken(token) IN
     IF u # NoUser
     THEN LET us == [users EXCEPT ![u] = [known |-> TRUE, isOnline |-> TRUE, lastSeen |-> Unset]]
          IN /\ sockUser' = [sockUser EXCEPT ![s] = u]
             /\ users' = us
             /\ userSockets' = [userSockets EXCEPT ![u] = s]
             /\ last' = Ran("auth:login", s, NoGroup, "success", "",
                   (IF config.enableOnlineStatus
                    THEN << Em("status:online", ToOthers(OpenSockets, s), u, NoGroup, 0, FALSE),
                            EmitOnlineUsers(us, OpenSockets) >>
                    ELSE <<>>)
                   \o (IF config.messageHistory
                       THEN << SendMessageHistory(s, u, messages, groups, config) >>
                       ELSE <<>>))
     ELSE /\ UNCHANGED <<sockUser, users, userSockets>>
          /\ last' = Ran("auth:login", s, NoGroup, "failure", "Invalid authentication token", <<>>)
  /\ UNCHANGED <<config, now, sockState, rateLimitCount, rateLimitReset, typingTimer,
                 rooms, messages, groups, typingUsers>>

(* ----------------------------- rate limit ------------------------------ *)
\* checkRateLimit that does not look at rateLimiting.enabled
checkRateLimitAlwaysOn(cfg, count, reset, t) ==
  LET expired == t > reset
      c == IF expired THEN 0 ELSE count
      r == IF expired THEN t + cfg.rateLimiting.timeWindow ELSE reset
  IN IF c >= cfg.rateLimiting.maxMessages
     THEN [ok |-> FALSE, count |-> c, reset |-> r]
     ELSE [ok |-> TRUE, count |-> c + 1, reset |-> r]

\* checkRateLimit that opens a new window already at the reset time itself
checkRateLimitResetAtEnd(cfg, count, reset, t) ==
  IF ~cfg.rateLimiting.enabled
  THEN [ok |-> TRUE, count |-> count, reset |-> reset]
  ELSE LET expired == t >= reset
           c == IF expired THEN 0 ELSE count
           r == IF expired THEN t + cfg.rateLimiting.timeWindow ELSE reset
       IN IF c >= cfg.rateLimiting.maxMessages
          THEN [ok |-> FALSE, count |-> c, reset |-> r]
          ELSE [ok |-> TRUE, count |-> c + 1, reset |-> r]

\* checkRateLimit that rejects only above maxMessages
\* checkRateLimit that starts counting afresh, in the same window, after it
\* has refused a message
checkRateLimitForgetOnRefusal(cfg, count, reset, t) ==
  IF ~cfg.rateLimiting.enabled
  THEN [ok |-> TRUE, count |-> count, reset |-> reset]
  ELSE LET expired == t > reset
           c == IF expired THEN 0 ELSE count
           r == IF expired THEN t + cfg.rateLimiting.timeWindow ELSE reset
       IN IF c >= cfg.rateLimiting.maxMessages
          THEN [ok |-> FALSE, count |-> 0, reset |-> r]
          ELSE [ok |-> TRUE, count |-> c + 1, reset |-> r]

checkRateLimitOneMore(cfg, count, reset, t) ==
  IF ~cfg.rateLimiting.enabled
  THEN [ok |-> TRUE, count |-> count, reset |-> reset]
  ELSE LET expired == t > reset
           c == IF expired THEN 0 ELSE count
           r == IF expired THEN t + cfg.rateLimiting.timeWindow ELSE reset
       IN IF c > cfg.rateLimiting.maxMessages
          THEN [ok |-> FALSE, count |-> c, reset |-> r]
          ELSE [ok |-> TRUE, count |-> c + 1, reset |-> r]

\* checkRateLimit(socket) at time t: the verdict and the socket's new window
checkRateLimit(cfg, count, reset, t) ==
  IF ~cfg.rateLimiting.enabled
  THEN [ok |-> TRUE, count |-> count, reset |-> reset]
  ELSE LET expired == t > reset
           c == IF expired THEN 0 ELSE count
           r == IF expired THEN t + cfg.rateLimiting.timeWindow ELSE reset
       IN IF c >= cfg.rateLimiting.maxMessages
          THEN [ok |-> FALSE, count |-> c, reset |-> r]
          ELSE [ok |-> TRUE, count |-> c + 1, reset |-> r]

(* ------------------------------ messages ------------------------------- *)
\* the values of messageSchema's messageType: valid('text', 'image', 'file', 'system')
MessageTypes == {"text", "image", "file", "system"}

\* Chatify's private messageSchema.validate(data).  content is the length of
\* the string; a key that is not in the payload is not in DOMAIN data; a
\* groupId is NoGroup when the key is absent and EmptyString when it is '',
\* which Joi.string() refuses; metadata is "object" or another kind of value.
ValidMessage(data) ==
  /\ data.content >= 1 /\ data.content <= 10000
  /\ "messageType" \in DOMAIN data => data.messageType \in MessageTypes
  /\ data.groupId # EmptyString
  /\ "metadata" \in DOMAIN data => data.metadata = "object"

\* messageSchema of validators.ts with an inclusive upper bound of 10001
messageSchemaOneMore(data) ==
  IF data.content < 1 THEN "Message content cannot be empty"
  ELSE IF data.content > 10001 THEN "Message content cannot exceed 10,000 characters"
  ELSE IF "messageType" \in DOMAIN data /\ data.messageType \notin MessageTypes
  THEN "\"messageType\" must be one of [text, image, file, system]"
  ELSE IF data.groupId = EmptyString THEN "\"groupId\" is not allowed to be empty"
  ELSE IF "metadata" \in DOMAIN data /\ data.metadata # "object"
  THEN "\"metadata\" must be of type object"
  ELSE ""

\* messageSchema.validate(data) of validators.ts: the message of the first
\* error detail, "" when there is none (Joi checks the keys in schema order)
messageSchema(data) ==
  IF data.content < 1 THEN "Message content cannot be empty"
  ELSE IF data.content > 10000 THEN "Message content cannot exceed 10,000 characters"
  ELSE IF "messageType" \in DOMAIN data /\ data.messageType \notin MessageTypes
  THEN "\"messageType\" must be one of [text, image, file, system]"
  ELSE IF data.groupId = EmptyString THEN "\"groupId\" is not allowed to be empty"
  ELSE IF "metadata" \in DOMAIN data /\ data.metadata # "object"
  THEN "\"metadata\" must be of type object"
  ELSE ""

\* validateMessage(data): { isValid, error } ("" is an undefined error)
validateMessage(data) ==
  LET error == messageSchema(data)
  IN [isValid |-> error = "", error |-> error]

\* markMessageAsDelivered without its test of the current status
markDeliveredWhateverStatus(msgs, id) ==
  IF id \in 1..Len(msgs)
  THEN [msgs EXCEPT ![id].deliveryStatus = "delivered"]
  ELSE msgs

\* markMessageAsDelivered(message, userIds)
markMessageAsDelivered(msgs, id) ==
  IF id \in 1..Len(msgs) /\ msgs[id].deliveryStatus = "sent"
  THEN [msgs EXCEPT ![id].deliveryStatus = "delivered"]
  ELSE msgs

\* markMessageAsRead that records the read and leaves the status alone
markReadKeepStatus(msgs, id, userId, t) ==
  IF id \in 1..Len(msgs)
  THEN IF \E i \in 1..Len(msgs[id].readBy) : msgs[id].readBy[i].userId = userId
       THEN msgs
       ELSE [msgs EXCEPT ![id].readBy = Append(@, [userId |-> userId, readAt |-> t])]
  ELSE msgs

\* markMessageAsRead without its search for an existing read of the user
markReadWithoutLookup(msgs, id, userId, t) ==
  IF id \in 1..Len(msgs)
  THEN [msgs EXCEPT ![id].readBy = Append(@, [userId |-> userId, readAt |-> t]),
                    ![id].deliveryStatus = "read"]
  ELSE msgs

\* markMessageAsRead(messageId, userId) at time t
markMessageAsRead(msgs, id, userId, t) ==
  IF id \in 1..Len(msgs)
  THEN IF \E i \in 1..Len(msgs[id].readBy) : msgs[id].readBy[i].userId = userId
       THEN msgs
       ELSE [msgs EXCEPT ![id].readBy = Append(@, [userId |-> userId, readAt |-> t]),
                         ![id].deliveryStatus = "read"]
  ELSE msgs

\* the Message built by message:send (uuidv4() is the next unused id)
NewMessage(s, data) ==
  [id |-> Len(messages) + 1, content |-> data.content, senderId |-> sockUser[s],
   groupId |-> data.groupId, timestamp |-> now,
   messageType |-> IF "messageType" \in DOMAIN data THEN data.messageType ELSE "text",
   deliveryStatus |-> "sent", readBy |-> <<>>]

\* socket.emit('error', error) of the message:send catch block
ErrorEmit(s) == Em("error", {s}, NoUser, NoGroup, 0, FALSE)

\* message:send that stores the message before it validates the payload
MessageSendStoreFirst(s, data, cap) ==
  /\ sockState[s] = "open"
  /\ IF sockUser[s] = NoUser
     THEN /\ last' = Ran("message:send", s, data.groupId, "failure",
                         "User not authenticated", <<ErrorEmit(s)>>)
          /\ UNCHANGED <<rateLimitCount, rateLimitReset, messages>>
     ELSE LET rl == checkRateLimit(config, rateLimitCount[s], rateLimitReset[s], now) IN
          /\ rateLimitCount' = [rateLimitCount EXCEPT ![s] = rl.count]
          /\ rateLimitReset' = [rateLimitReset EXCEPT ![s] = rl.reset]
          /\ IF ~rl.ok
             THEN /\ last' = Ran("message:send", s, data.groupId, "failure",
                                 "Rate limit exceeded", <<ErrorEmit(s)>>)
                  /\ UNCHANGED messages
             ELSE IF ~ValidMessage(data)
             THEN /\ last' = Ran("message:send", s, data.groupId, "failure",
                                 "Validation error", <<ErrorEmit(s)>>)
                  /\ Len(messages) < cap
                  /\ messages' = Append(messages, NewMessage(s, data))
             ELSE LET message == NewMessage(s, data)
                      stored == Append(messages, message)
                  IN /\ Len(messages) < cap
                     /\ IF message.groupId # NoGroup
                        THEN IF /\ message.groupId \in 1..Len(groups)
                                /\ sockUser[s] \in Range(groups[message.groupId].members)
                             THEN /\ messages' = IF config.enableMessageDelivery
                                                 THEN markMessageAsDelivered(stored, message.id)
                                                 ELSE stored
                                  /\ last' = Ran("message:send", s, data.groupId, "success", "",
                                        << Em("message:receive",
                                              ToRoom(OpenSockets, rooms, message.groupId),
                                              sockUser[s], message.groupId, message.id, FALSE) >>)
                             ELSE /\ messages' = stored
                                  /\ last' = Ran("message:send", s, data.groupId, "failure",
                                        "Group not found or user not a member", <<ErrorEmit(s)>>)
                        ELSE /\ messages' = IF config.enableMessageDelivery
                                            THEN markMessageAsDelivered(stored, message.id)
                                            ELSE stored
                             /\ last' = Ran("message:send", s, data.groupId, "success", "",
                                   << Em("message:receive", ToAll(OpenSockets),
                                         sockUser[s], NoGroup, message.id, FALSE) >>)
  /\ UNCHANGED <<config, now, sockState, sockUser, typingTimer, rooms, users,
                 userSockets, groups, typingUsers>>

\* message:send that tells a missing group from a group the sender is not in
MessageSendDistinctErrors(s, data, cap) ==
  /\ sockState[s] = "open"
  /\ IF sockUser[s] = NoUser
     THEN /\ last' = Ran("message:send", s, data.groupId, "failure",
                         "User not authenticated", <<ErrorEmit(s)>>)
          /\ UNCHANGED <<rateLimitCount, rateLimitReset, messages>>
     ELSE LET rl == checkRateLimit(config, rateLimitCount[s], rateLimitReset[s], now) IN
          /\ rateLimitCount' = [rateLimitCount EXCEPT ![s] = rl.count]
          /\ rateLimitReset' = [rateLimitReset EXCEPT ![s] = rl.reset]
          /\ IF ~rl.ok
             THEN /\ last' = Ran("message:send", s, data.groupId, "failure",
                                 "Rate limit exceeded", <<ErrorEmit(s)>>)
                  /\ UNCHANGED messages
             ELSE IF ~ValidMessage(data)
             THEN /\ last' = Ran("message:send", s, data.groupId, "failure",
                                 "Validation error", <<ErrorEmit(s)>>)
                  /\ UNCHANGED messages
             ELSE LET message == NewMessage(s, data)
                      stored == Append(messages, message)
                  IN /\ Len(messages) < cap
                     /\ IF message.groupId # NoGroup
                        THEN IF /\ message.groupId \in 1..Len(groups)
                                /\ sockUser[s] \in Range(groups[message.groupId].members)
                             THEN /\ messages' = IF config.enableMessageDelivery
                                                 THEN markMessageAsDelivered(stored, message.id)
                                                 ELSE stored
                                  /\ last' = Ran("message:send", s, data.groupId, "success", "",
                                        << Em("message:receive",
                                              ToRoom(OpenSockets, rooms, message.groupId),
                                              sockUser[s], message.groupId, message.id, FALSE) >>)
                             ELSE /\ messages' = stored
                                  /\ last' = Ran("message:send", s, data.groupId, "failure",
                                        IF message.groupId \in 1..Len(groups)
                                        THEN "User not a member"
                                        ELSE "Group not found", <<ErrorEmit(s)>>)
                        ELSE /\ messages' = IF config.enableMessageDelivery
                                            THEN markMessageAsDelivered(stored, message.id)
                                            ELSE stored
                             /\ last' = Ran("message:send", s, data.groupId, "success", "",
                                   << Em("message:receive", ToAll(OpenSockets),
                                         sockUser[s], NoGroup, message.id, FALSE) >>)
  /\ UNCHANGED <<config, now, sockState, sockUser, typingTimer, rooms, users,
                 userSockets, groups, typingUsers>>

\* socket.on('message:send'); cap bounds the number of stored messages explored
MessageSendCap(s, data, cap) ==
  /\ sockState[s] = "open"
  /\ IF sockUser[s] = NoUser
     THEN /\ last' = Ran("message:send", s, data.groupId, "failure",
                         "User not authenticated", <<ErrorEmit(s)>>)
          /\ UNCHANGED <<rateLimitCount, rateLimitReset, messages>>
     ELSE LET rl == checkRateLimit(config, rateLimitCount[s], rateLimitReset[s], now) IN
          /\ rateLimitCount' = [rateLimitCount EXCEPT ![s] = rl.count]
          /\ rateLimitReset' = [rateLimitReset EXCEPT ![s] = rl.reset]
          /\ IF ~rl.ok
             THEN /\ last' = Ran("message:send", s, data.groupId, "failure",
                                 "Rate limit exceeded", <<ErrorEmit(s)>>)
                  /\ UNCHANGED messages
             ELSE IF ~ValidMessage(data)
             THEN /\ last' = Ran("message:send", s, data.groupId, "failure",
                                 "Validation error", <<ErrorEmit(s)>>)
                  /\ UNCHANGED messages
             ELSE LET message == NewMessage(s, data)
                      stored == Append(messages, message)
                  IN /\ Len(messages) < cap
                     /\ IF message.groupId # NoGroup
                        THEN IF /\ message.groupId \in 1..Len(groups)
                                /\ sockUser[s] \in Range(groups[message.groupId].members)
                             THEN /\ messages' = IF config.enableMessageDelivery
                                                 THEN markMessageAsDelivered(stored, message.id)
                                                 ELSE stored
                                  /\ last' = Ran("message:send", s, data.groupId, "success", "",
                                        << Em("message:receive",
                                              ToRoom(OpenSockets, rooms, message.groupId),
                                              sockUser[s], message.groupId, message.id, FALSE) >>)
                             ELSE /\ messages' = stored
                                  /\ last' = Ran("message:send", s, data.groupId, "failure",
                                        "Group not found or user not a member", <<ErrorEmit(s)>>)
                        ELSE /\ messages' = IF config.enableMessageDelivery
                                            THEN markMessageAsDelivered(stored, message.id)
                                            ELSE stored
                             /\ last' = Ran("message:send", s, data.groupId, "success", "",
                                   << Em("message:receive", ToAll(OpenSockets),
                                         sockUser[s], NoGroup, message.id, FALSE) >>)
  /\ UNCHANGED <<config, now, sockState, sockUser, typingTimer, rooms, users,
                 userSockets, groups, typingUsers>>

MessageSend(s, data) == MessageSendCap(s, data, MaxMsgs)

\* socket.on('message:delivered')
MessageDelivered(s, id) ==
  /\ sockState[s] = "open"
  /\ config.enableMessageDelivery
  /\ IF sockUser[s] # NoUser
     THEN /\ messages' = markMessageAsDelivered(messages, id)
          /\ last' = Ran("message:delivered", s, NoGroup, "none", "",
                << Em("message:delivered", ToOthers(OpenSockets, s), sockUser[s], NoGroup, id, FALSE) >>)
     ELSE /\ UNCHANGED messages
          /\ last' = Ran("message:delivered", s, NoGroup, "none", "", <<>>)
  /\ UNCHANGED <<config, now, sockVars, users, userSockets, groups, typingUsers>>

\* message:read that does not test socket.user
MessageReadAnyone(s, id) ==
  /\ sockState[s] = "open"
  /\ config.enableMessageDelivery
  /\ messages' = markMessageAsRead(messages, id, sockUser[s], now)
  /\ last' = Ran("message:read", s, NoGroup, "none", "",
        << Em("message:read", ToOthers(OpenSockets, s), sockUser[s], NoGroup, id, FALSE) >>)
  /\ UNCHANGED <<config, now, sockVars, users, userSockets, groups, typingUsers>>

\* socket.on('message:read')
MessageRead(s, id) ==
  /\ sockState[s] = "open"
  /\ config.enableMessageDelivery
  /\ IF sockUser[s] # NoUser
     THEN /\ messages' = markMessageAsRead(messages, id, sockUser[s], now)
          /\ last' = Ran("message:read", s, NoGroup, "none", "",
                << Em("message:read", ToOthers(OpenSockets, s), sockUser[s], NoGroup, id, FALSE) >>)
     ELSE /\ UNCHANGED messages
          /\ last' = Ran("message:read", s, NoGroup, "none", "", <<>>)
  /\ UNCHANGED <<config, now, sockVars, users, userSockets, groups, typingUsers>>

\* broadcastSystemMessage that refuses a groupId that names no group
BroadcastToKnownGroup(groupId) ==
  /\ Len(messages) < MaxMsgs
  /\ groupId = NoGroup \/ groupId \in 1..Len(groups)
  /\ LET message == [id |-> Len(messages) + 1, content |-> 1, senderId |-> SystemId,
                     groupId |-> groupId, timestamp |-> now, messageType |-> "system",
                     deliveryStatus |-> "delivered", readBy |-> <<>>]
     IN /\ messages' = Append(messages, message)
        /\ last' = Ran("system", 0, groupId, "none", "",
              << Em("message:receive",
                    IF groupId # NoGroup THEN ToRoom(OpenSockets, rooms, groupId)
                                         ELSE ToAll(OpenSockets),
                    SystemId, groupId, message.id, FALSE) >>)
  /\ UNCHANGED <<config, now, sockVars, users, userSockets, groups, typingUsers>>

\* broadcastSystemMessage(content, groupId?)
BroadcastSystemMessage(groupId) ==
  /\ Len(messages) < MaxMsgs
  /\ LET message == [id |-> Len(messages) + 1, content |-> 1, senderId |-> SystemId,
                     groupId |-> groupId, timestamp |-> now, messageType |-> "system",
                     deliveryStatus |-> "delivered", readBy |-> <<>>]
     IN /\ messages' = Append(messages, message)
        /\ last' = Ran("system", 0, groupId, "none", "",
              << Em("message:receive",
                    IF groupId # NoGroup THEN ToRoom(OpenSockets, rooms, groupId)
                                         ELSE ToAll(OpenSockets),
                    SystemId, groupId, message.id, FALSE) >>)
  /\ UNCHANGED <<config, now, sockVars, users, userSockets, groups, typingUsers>>

(* ------------------------------- groups -------------------------------- *)
\* the Group built by group:create
NewGroup(creator, members) ==
  [id |-> Len(groups) + 1, createdBy |-> creator, createdAt |-> now,
   members |-> <<creator>> \o members, admins |-> <<creator>>]

\* socket.on('group:create'); members is the payload's members array
GroupCreate(s, members) ==
  /\ sockState[s] = "open"
  /\ config.enableGroups
  /\ IF sockUser[s] = NoUser
     THEN /\ last' = Ran("group:create", s, NoGroup, "failure", "User not authenticated", <<>>)
          /\ UNCHANGED <<groups, rooms>>
     ELSE LET group == NewGroup(sockUser[s], members)
              \* members whose userSockets entry is a connection
              joined == {userSockets[m] : m \in Range(group.members)} \ {0}
              rm == [t \in Sockets |-> IF t = s \/ t \in joined
                                       THEN rooms[t] \cup {group.id} ELSE rooms[t]]
          IN /\ Len(groups) < MaxGroups
             /\ groups' = Append(groups, group)
             /\ rooms' = rm
             /\ last' = Ran("group:create", s, group.id, "success", "",
                   SelectSeq([i \in 1..Len(group.members) |->
                                Em("group:joined",
                                   IF userSockets[group.members[i]] # 0
                                   THEN {userSockets[group.members[i]]} ELSE {},
                                   group.members[i], group.id, 0, FALSE)],
                             LAMBDA e : e.to # {}))
  /\ UNCHANGED <<config, now, sockState, sockUser, rateLimitCount, rateLimitReset,
                 typingTimer, users, userSockets, messages, typingUsers>>

\* group:join that logs a missing group and never calls back
GroupJoinSilentFailure(s, g) ==
  /\ sockState[s] = "open"
  /\ config.enableGroups
  /\ IF sockUser[s] = NoUser
     THEN /\ last' = Ran("group:join", s, g, "failure", "User not authenticated", <<>>)
          /\ UNCHANGED <<groups, rooms>>
     ELSE IF g \notin 1..Len(groups)
     THEN /\ last' = Ran("group:join", s, g, "none", "Group not found", <<>>)
          /\ UNCHANGED <<groups, rooms>>
     ELSE /\ groups' = IF sockUser[s] \notin Range(groups[g].members)
                       THEN [groups EXCEPT ![g].members = Append(@, sockUser[s])]
                       ELSE groups
          /\ rooms' = [rooms EXCEPT ![s] = @ \cup {g}]
          /\ last' = Ran("group:join", s, g, "success", "",
                << Em("group:member_joined", ToRoomExcept(OpenSockets, rooms, g, s),
                      sockUser[s], g, 0, FALSE) >>)
  /\ UNCHANGED <<config, now, sockState, sockUser, rateLimitCount, rateLimitReset,
                 typingTimer, users, userSockets, messages, typingUsers>>

\* group:join that pushes the user without looking for it in members
GroupJoinAlwaysPush(s, g) ==
  /\ sockState[s] = "open"
  /\ config.enableGroups
  /\ IF sockUser[s] = NoUser
     THEN /\ last' = Ran("group:join", s, g, "failure", "User not authenticated", <<>>)
          /\ UNCHANGED <<groups, rooms>>
     ELSE IF g \notin 1..Len(groups)
     THEN /\ last' = Ran("group:join", s, g, "failure", "Group not found", <<>>)
          /\ UNCHANGED <<groups, rooms>>
     ELSE /\ groups' = [groups EXCEPT ![g].members = Append(@, sockUser[s])]
          /\ rooms' = [rooms EXCEPT ![s] = @ \cup {g}]
          /\ last' = Ran("group:join", s, g, "success", "",
                << Em("group:member_joined", ToRoomExcept(OpenSockets, rooms, g, s),
                      sockUser[s], g, 0, FALSE) >>)
  /\ UNCHANGED <<config, now, sockState, sockUser, rateLimitCount, rateLimitReset,
                 typingTimer, users, userSockets, messages, typingUsers>>

\* group:join that puts the socket in the room before it looks the group up
GroupJoinRoomFirst(s, g) ==
  /\ sockState[s] = "open"
  /\ config.enableGroups
  /\ IF sockUser[s] = NoUser
     THEN /\ last' = Ran("group:join", s, g, "failure", "User not authenticated", <<>>)
          /\ UNCHANGED <<groups, rooms>>
     ELSE IF g \notin 1..Len(groups)
     THEN /\ last' = Ran("group:join", s, g, "failure", "Group not found", <<>>)
          /\ rooms' = [rooms EXCEPT ![s] = @ \cup {g}]
          /\ UNCHANGED groups
     ELSE /\ groups' = IF sockUser[s] \notin Range(groups[g].members)
                       THEN [groups EXCEPT ![g].members = Append(@, sockUser[s])]
                       ELSE groups
          /\ rooms' = [rooms EXCEPT ![s] = @ \cup {g}]
          /\ last' = Ran("group:join", s, g, "success", "",
                << Em("group:member_joined", ToRoomExcept(OpenSockets, rooms, g, s),
                      sockUser[s], g, 0, FALSE) >>)
  /\ UNCHANGED <<config, now, sockState, sockUser, rateLimitCount, rateLimitReset,
                 typingTimer, users, userSockets, messages, typingUsers>>

\* socket.on('group:join')
GroupJoin(s, g) ==
  /\ sockState[s] = "open"
  /\ config.enableGroups
  /\ IF sockUser[s] = NoUser
     THEN /\ last' = Ran("group:join", s, g, "failure", "User not authenticated", <<>>)
          /\ UNCHANGED <<groups, rooms>>
     ELSE IF g \notin 1..Len(groups)
     THEN /\ last' = Ran("group:join", s, g, "failure", "Group not found", <<>>)
          /\ UNCHANGED <<groups, rooms>>
     ELSE /\ groups' = IF sockUser[s] \notin Range(groups[g].members)
                       THEN [groups EXCEPT ![g].members = Append(@, sockUser[s])]
                       ELSE groups
          /\ rooms' = [rooms EXCEPT ![s] = @ \cup {g}]
          /\ last' = Ran("group:join", s, g, "success", "",
                << Em("group:member_joined", ToRoomExcept(OpenSockets, rooms, g, s),
                      sockUser[s], g, 0, FALSE) >>)
  /\ UNCHANGED <<config, now, sockState, sockUser, rateLimitCount, rateLimitReset,
                 typingTimer, users, userSockets, messages, typingUsers>>

\* group:leave that deletes a group once its last member has left
GroupLeaveDropEmpty(s, g) ==
  /\ sockState[s] = "open"
  /\ config.enableGroups
  /\ IF sockUser[s] = NoUser
     THEN /\ last' = Ran("group:leave", s, g, "failure", "User not authenticated", <<>>)
          /\ UNCHANGED <<groups, rooms>>
     ELSE IF g \notin 1..Len(groups)
     THEN /\ last' = Ran("group:leave", s, g, "failure", "Group not found", <<>>)
          /\ UNCHANGED <<groups, rooms>>
     ELSE /\ groups' = SelectSeq([groups EXCEPT ![g].members = Filter(@, sockUser[s]),
                                                ![g].admins = Filter(@, sockUser[s])],
                                 LAMBDA gr : gr.members # <<>>)
          /\ rooms' = [rooms EXCEPT ![s] = @ \ {g}]
          /\ last' = Ran("group:leave", s, g, "success", "",
                << Em("group:member_left", ToRoomExcept(OpenSockets, rooms, g, s),
                      sockUser[s], g, 0, FALSE) >>)
  /\ UNCHANGED <<config, now, sockState, sockUser, rateLimitCount, rateLimitReset,
                 typingTimer, users, userSockets, messages, typingUsers>>

\* group:leave that filters the user out of members only
GroupLeaveKeepAdmin(s, g) ==
  /\ sockState[s] = "open"
  /\ config.enableGroups
  /\ IF sockUser[s] = NoUser
     THEN /\ last' = Ran("group:leave", s, g, "failure", "User not authenticated", <<>>)
          /\ UNCHANGED <<groups, rooms>>
     ELSE IF g \notin 1..Len(groups)
     THEN /\ last' = Ran("group:leave", s, g, "failure", "Group not found", <<>>)
          /\ UNCHANGED <<groups, rooms>>
     ELSE /\ groups' = [groups EXCEPT ![g].members = Filter(@, sockUser[s])]
          /\ rooms' = [rooms EXCEPT ![s] = @ \ {g}]
          /\ last' = Ran("group:leave", s, g, "success", "",
                << Em("group:member_left", ToRoomExcept(OpenSockets, rooms, g, s),
                      sockUser[s], g, 0, FALSE) >>)
  /\ UNCHANGED <<config, now, sockState, sockUser, rateLimitCount, rateLimitReset,
                 typingTimer, users, userSockets, messages, typingUsers>>

\* socket.on('group:leave')
GroupLeave(s, g) ==
  /\ sockState[s] = "open"
  /\ config.enableGroups
  /\ IF sockUser[s] = NoUser
     THEN /\ last' = Ran("group:leave", s, g, "failure", "User not authenticated", <<>>)
          /\ UNCHANGED <<groups, rooms>>
     ELSE IF g \notin 1..Len(groups)
     THEN /\ last' = Ran("group:leave", s, g, "failure", "Group not found", <<>>)
          /\ UNCHANGED <<groups, rooms>>
     ELSE /\ groups' = [groups EXCEPT ![g].members = Filter(@, sockUser[s]),
                                      ![g].admins = Filter(@, sockUser[s])]
          /\ rooms' = [rooms EXCEPT ![s] = @ \ {g}]
          /\ last' = Ran("group:leave", s, g, "success", "",
                << Em("group:member_left", ToRoomExcept(OpenSockets, rooms, g, s),
                      sockUser[s], g, 0, FALSE) >>)
  /\ UNCHANGED <<config, now, sockState, sockUser, rateLimitCount, rateLimitReset,
                 typingTimer, users, userSockets, messages, typingUsers>>

(* ------------------------------- typing -------------------------------- *)
\* typingUsers.set(`${userId}:${groupId || 'global'}`, indicator)
SetTyping(typing, u, g, t) ==
  {e \in typing : ~(e.userId = u /\ e.groupId = g)}
    \cup {[userId |-> u, groupId |-> g, timestamp |-> t]}

\* the typing:indicator emit of typing:start and stopTyping
IndicatorEmit(s, u, g, isTyping, open, rm) ==
  Em("typing:indicator",
     IF g # NoGroup THEN ToRoomExcept(open, rm, g, s) ELSE ToOthers(open, s),
     u, g, 0, isTyping)

\* typing:start that leaves a pending timer running instead of replacing it
TypingStartKeepTimer(s, g) ==
  /\ sockState[s] = "open"
  /\ config.enableTypingIndicator
  /\ IF sockUser[s] = NoUser
     THEN /\ UNCHANGED <<typingUsers, typingTimer>>
          /\ last' = Ran("typing:start", s, g, "none", "", <<>>)
     ELSE /\ typingUsers' = SetTyping(typingUsers, sockUser[s], g, now)
          /\ typingTimer' = [typingTimer EXCEPT ![s] =
                IF @.armed THEN @
                ELSE [armed |-> TRUE, groupId |-> g, due |-> now + config.typingTimeout]]
          /\ last' = Ran("typing:start", s, g, "none", "",
                << IndicatorEmit(s, sockUser[s], g, TRUE, OpenSockets, rooms) >>)
  /\ UNCHANGED <<config, now, sockState, sockUser, rateLimitCount, rateLimitReset,
                 rooms, users, userSockets, messages, groups>>

\* socket.on('typing:start')
TypingStart(s, g) ==
  /\ sockState[s] = "open"
  /\ config.enableTypingIndicator
  /\ IF sockUser[s] = NoUser
     THEN /\ UNCHANGED <<typingUsers, typingTimer>>
          /\ last' = Ran("typing:start", s, g, "none", "", <<>>)
     ELSE /\ typingUsers' = SetTyping(typingUsers, sockUser[s], g, now)
          /\ typingTimer' = [typingTimer EXCEPT ![s] =
                [armed |-> TRUE, groupId |-> g, due |-> now + config.typingTimeout]]
          /\ last' = Ran("typing:start", s, g, "none", "",
                << IndicatorEmit(s, sockUser[s], g, TRUE, OpenSockets, rooms) >>)
  /\ UNCHANGED <<config, now, sockState, sockUser, rateLimitCount, rateLimitReset,
                 rooms, users, userSockets, messages, groups>>

\* stopTyping(socket, groupId?): the typing map, the socket's timer and the
\* emits it leaves behind; open is the set of connections an emit can reach
stopTyping(s, g, open) ==
  IF sockUser[s] = NoUser
  THEN [typing |-> typingUsers, timer |-> typingTimer[s], emits |-> <<>>]
  ELSE LET u == sockUser[s]
           found == \E e \in typingUsers : e.userId = u /\ e.groupId = g
       IN [typing |-> {e \in typingUsers : ~(e.userId = u /\ e.groupId = g)},
           timer |-> NoTimer,
           emits |-> IF found THEN << IndicatorEmit(s, u, g, FALSE, open, rooms) >> ELSE <<>>]

\* socket.on('typing:stop')
TypingStop(s, g) ==
  /\ sockState[s] = "open"
  /\ config.enableTypingIndicator
  /\ LET r == stopTyping(s, g, OpenSockets) IN
     /\ typingUsers' = r.typing
     /\ typingTimer' = [typingTimer EXCEPT ![s] = r.timer]
     /\ last' = Ran("typing:stop", s, g, "none", "", r.emits)
  /\ UNCHANGED <<config, now, sockState, sockUser, rateLimitCount, rateLimitReset,
                 rooms, users, userSockets, messages, groups>>

\* the setTimeout callback armed by typing:start, run when it falls due
TypingTimeout(s) ==
  /\ typingTimer[s].armed
  /\ now >= typingTimer[s].due
  /\ LET r == stopTyping(s, typingTimer[s].groupId, OpenSockets) IN
     /\ typingUsers' = r.typing
     /\ typingTimer' = [typingTimer EXCEPT ![s] = r.timer]
     /\ last' = Ran("typing:timeout", s, typingTimer[s].groupId, "none", "", r.emits)
  /\ UNCHANGED <<config, now, sockState, sockUser, rateLimitCount, rateLimitReset,
                 rooms, users, userSockets, messages, groups>>

\* disconnect that broadcasts the online list before it marks the user offline
DisconnectAnnounceFirst(s) ==
  /\ sockState[s] = "open"
  /\ sockState' = [sockState EXCEPT ![s] = "closed"]
  /\ rooms' = [rooms EXCEPT ![s] = {}]
  /\ IF sockUser[s] # NoUser
     THEN LET u == sockUser[s]
              open == OpenSockets \ {s}
              us == IF users[u].known
                    THEN [users EXCEPT ![u].isOnline = FALSE, ![u].lastSeen = now]
                    ELSE users
              r == stopTyping(s, NoGroup, open)
          IN /\ users' = us
             /\ userSockets' = [userSockets EXCEPT ![u] = 0]
             /\ typingUsers' = r.typing
             /\ typingTimer' = [typingTimer EXCEPT ![s] = r.timer]
             /\ last' = Ran("disconnect", s, NoGroup, "none", "",
                   r.emits \o
                   (IF config.enableOnlineStatus
                    THEN << Em("status:offline", open, u, NoGroup, 0, FALSE),
                            EmitOnlineUsers(users, open) >>
                    ELSE <<>>))
     ELSE /\ UNCHANGED <<users, userSockets, typingUsers, typingTimer>>
          /\ last' = Ran("disconnect", s, NoGroup, "none", "", <<>>)
  /\ UNCHANGED <<config, now, sockUser, rateLimitCount, rateLimitReset, messages, groups>>

\* disconnect that marks the user offline without recording lastSeen
DisconnectKeepLastSeen(s) ==
  /\ sockState[s] = "open"
  /\ sockState' = [sockState EXCEPT ![s] = "closed"]
  /\ rooms' = [rooms EXCEPT ![s] = {}]
  /\ IF sockUser[s] # NoUser
     THEN LET u == sockUser[s]
              open == OpenSockets \ {s}
              us == IF users[u].known
                    THEN [users EXCEPT ![u].isOnline = FALSE]
                    ELSE users
              r == stopTyping(s, NoGroup, open)
          IN /\ users' = us
             /\ userSockets' = [userSockets EXCEPT ![u] = 0]
             /\ typingUsers' = r.typing
             /\ typingTimer' = [typingTimer EXCEPT ![s] = r.timer]
             /\ last' = Ran("disconnect", s, NoGroup, "none", "",
                   r.emits \o
                   (IF config.enableOnlineStatus
                    THEN << Em("status:offline", open, u, NoGroup, 0, FALSE),
                            EmitOnlineUsers(us, open) >>
                    ELSE <<>>))
     ELSE /\ UNCHANGED <<users, userSockets, typingUsers, typingTimer>>
          /\ last' = Ran("disconnect", s, NoGroup, "none", "", <<>>)
  /\ UNCHANGED <<config, now, sockUser, rateLimitCount, rateLimitReset, messages, groups>>

\* socket.on('disconnect')
Disconnect(s) ==
  /\ sockState[s] = "open"
  /\ sockState' = [sockState EXCEPT ![s] = "closed"]
  /\ rooms' = [rooms EXCEPT ![s] = {}]
  /\ IF sockUser[s] # NoUser
     THEN LET u == sockUser[s]
              open == OpenSockets \ {s}
              us == IF users[u].known
                    THEN [users EXCEPT ![u].isOnline = FALSE, ![u].lastSeen = now]
                    ELSE users
              r == stopTyping(s, NoGroup, open)
          IN /\ users' = us
             /\ userSockets' = [userSockets EXCEPT ![u] = 0]
             /\ typingUsers' = r.typing
             /\ typingTimer' = [typingTimer EXCEPT ![s] = r.timer]
             /\ last' = Ran("disconnect", s, NoGroup, "none", "",
                   r.emits \o
                   (IF config.enableOnlineStatus
                    THEN << Em("status:offline", open, u, NoGroup, 0, FALSE),
                            EmitOnlineUsers(us, open) >>
                    ELSE <<>>))
     ELSE /\ UNCHANGED <<users, userSockets, typingUsers, typingTimer>>
          /\ last' = Ran("disconnect", s, NoGroup, "none", "", <<>>)
  /\ UNCHANGED <<config, now, sockUser, rateLimitCount, rateLimitReset, messages, groups>>

\* socket.on('status:get_online'): the callback is handed users.filter(isOnline)
StatusGetOnline(s) ==
  /\ sockState[s] = "open"
  /\ config.enableOnlineStatus
  /\ last' = Ran("status:get_online", s, NoGroup, "none", "",
        << [Em("status:get_online", {s}, NoUser, NoGroup, 0, FALSE)
              EXCEPT !.users = {u \in UserIds : users[u].known /\ users[u].isOnline}] >>)
  /\ UNCHANGED <<config, now, sockVars, users, userSockets, messages, groups, typingUsers>>

(* -------------------------- unhandled events -------------------------- *)
\* the listeners setupEventHandlers registers depend on the configuration:
\* auth:login with authentication, the group events with enableGroups
Registered(event) ==
  CASE event = "auth:login" -> config.enableAuthentication
    [] event \in {"group:create", "group:join", "group:leave"} -> config.enableGroups
    [] OTHER -> TRUE

\* a client emits an event no listener is registered for: Socket.IO finds no
\* handler, nothing runs and the client's callback is never invoked
Unhandled(event, s) ==
  /\ sockState[s] = "open"
  /\ ~Registered(event)
  /\ last' = Ran(event, s, NoGroup, "none", "", <<>>)
  /\ UNCHANGED <<config, now, sockVars, users, userSockets, messages, groups, typingUsers>>

(* -------------------------------- time --------------------------------- *)
\* d units of time pass; a timer that is due runs before time moves past it
Tick(d, horizon) ==
  /\ now + d <= horizon
  /\ \A s \in Sockets : typingTimer[s].armed => now + d <= typingTimer[s].due
  /\ now' = now + d
  /\ last' = Ran("tick", 0, NoGroup, "none", "", <<>>)
  /\ UNCHANGED <<config, sockVars, users, userSockets, messages, groups, typingUsers>>

(* --------------------------- specifications ---------------------------- *)
\* payloads a client can send
Conversations == {NoGroup} \cup GroupIds
Payloads == [content : {0, 1}, groupId : Conversations]
MemberLists == SeqsUpTo(UserIds, MaxMembers)
Tokens == {NoUser} \cup UserIds

\* groups: connections, logins and the three group handlers
GroupInit == \E auth \in BOOLEAN : InitWith(WithConfig(auth, 2, 2, 2))

GroupNext ==
  \/ \E s \in Sockets : Connection(s)
  \/ \E s \in Sockets, token \in Tokens : AuthLogin(s, token)
  \/ \E s \in Sockets : Disconnect(s)
  \/ \E s \in Sockets, members \in MemberLists : GroupCreate(s, members)
  \/ \E s \in Sockets, g \in GroupIds : GroupJoin(s, g)
  \/ \E s \in Sockets, g \in GroupIds : GroupLeave(s, g)

GroupSpec == GroupInit /\ [][GroupNext]_vars

\* sends: valid payloads to any conversation, while groups are created,
\* joined and left
SendInit == \E auth \in BOOLEAN : InitWith(WithConfig(auth, 2, MaxMsgs + 1, 2))

SendNext ==
  \/ \E s \in Sockets : Connection(s)
  \/ \E s \in Sockets, token \in Tokens : AuthLogin(s, token)
  \/ \E s \in Sockets, g \in Conversations : MessageSend(s, [content |-> 1, groupId |-> g])
  \/ \E s \in Sockets : GroupCreate(s, <<>>)
  \/ \E s \in Sockets, g \in GroupIds : GroupJoin(s, g)
  \/ \E s \in Sockets, g \in GroupIds : GroupLeave(s, g)

SendSpec == SendInit /\ [][SendNext]_vars

\* receipts: delivered and read marks on user and system messages
ReceiptInit == \E auth \in BOOLEAN : InitWith(WithConfig(auth, 2, MaxMsgs + 1, 2))

ReceiptNext ==
  \/ \E s \in Sockets : Connection(s)
  \/ \E s \in Sockets, token \in Tokens : AuthLogin(s, token)
  \/ \E s \in Sockets, g \in Conversations : MessageSend(s, [content |-> 1, groupId |-> g])
  \/ \E s \in Sockets, id \in MsgIds : MessageDelivered(s, id)
  \/ \E s \in Sockets, id \in MsgIds : MessageRead(s, id)
  \/ \E g \in Conversations : BroadcastSystemMessage(g)

ReceiptSpec == ReceiptInit /\ [][ReceiptNext]_vars

\* typing: anonymous connections type in any conversation and disconnect
TypingInit == InitWith(WithConfig(FALSE, 2, 2, 2))

TypingNext ==
  \/ \E s \in Sockets : Connection(s)
  \/ \E s \in Sockets : Disconnect(s)
  \/ \E s \in Sockets, g \in Conversations : TypingStart(s, g)
  \/ \E s \in Sockets, g \in Conversations : TypingStop(s, g)
  \/ \E s \in Sockets : TypingTimeout(s)
  \/ Tick(1, MaxTime)

TypingSpec == TypingInit /\ [][TypingNext]_vars

\* typing of each user in one conversation only: anonymous connections, the
\* first in the global conversation, the others in a group conversation
Focus(s) == IF s = 1 THEN NoGroup ELSE 1

OneTypingInit == InitWith(WithConfig(FALSE, 2, 2, 2))

OneTypingNext ==
  \/ \E s \in Sockets : Connection(s)
  \/ \E s \in Sockets : TypingStart(s, Focus(s))
  \/ \E s \in Sockets : TypingStop(s, Focus(s))
  \/ \E s \in Sockets : TypingTimeout(s)
  \/ Tick(1, MaxTime)

OneTypingSpec == OneTypingInit /\ [][OneTypingNext]_vars

\* rate limiting: anonymous connections sending valid global messages while
\* time passes in steps around the window length
ValidGlobal == [content |-> 1, groupId |-> NoGroup]
Steps == {config.rateLimiting.timeWindow - 1, config.rateLimiting.timeWindow,
          config.rateLimiting.timeWindow + 1}
Horizon == 2 * config.rateLimiting.timeWindow + 2

RateNext ==
  \/ \E s \in Sockets : Connection(s)
  \/ \E s \in Sockets :
       MessageSendCap(s, ValidGlobal, config.rateLimiting.maxMessages + MaxMsgs)
  \/ \E d \in Steps : Tick(d, Horizon)

Rate3Init == InitWith(WithConfig(FALSE, 3000, 3, 1000))
Rate3Spec == Rate3Init /\ [][RateNext]_vars

Rate5Init == InitWith(WithConfig(FALSE, 3000, 5, 1000))
Rate5Spec == Rate5Init /\ [][RateNext]_vars

(* ------------------------------ properties ----------------------------- *)
\* group.members.includes(userId) on an existing group
IsMember(u, g) == g \in 1..Len(groups) /\ u \in Range(groups[g].members)

\* the typing entries of user u in conversation g
Entries(u, g) == {e \in typingUsers : e.userId = u /\ e.groupId = g}

\* emits of the last handler with the given event name
Emitted(l, name) == {i \in 1..Len(l.emits) : l.emits[i].name = name}

NoDuplicates(seq) == \A i, j \in 1..Len(seq) : seq[i] = seq[j] => i = j

\* sent < delivered < read
Rank(status) == CASE status = "sent" -> 0 [] status = "delivered" -> 1 [] status = "read" -> 2

\* start of the connection's current rate-limit window
WindowStart(s) == rateLimitReset[s] - config.rateLimiting.timeWindow

\* messages of the connection's user stored since the window started
SentInWindow(s) ==
  Cardinality({i \in 1..Len(messages) : /\ messages[i].senderId = sockUser[s]
                                        /\ messages[i].timestamp >= WindowStart(s)})

\* C1: a message:send naming a group the sender is not a member of (existing
\* or not) is acknowledged with a failure, stores no message and emits no
\* message:receive.
C1_NonMemberSendLeavesNoTrace ==
  [][ ( /\ last'.event = "message:send"
        /\ last'.groupId # NoGroup
        /\ ~IsMember(sockUser[last'.socket], last'.groupId) )
      => /\ last'.ack = "failure"
         /\ messages' = messages
         /\ Emitted(last', "message:receive") = {} ]_vars

\* C2: no step lowers the deliveryStatus of a stored message in the order
\* sent < delivered < read; in particular a delivered mark on a read message
\* leaves it read.
C2_DeliveryStatusMonotone ==
  [][ /\ Len(messages') >= Len(messages)
      /\ \A i \in 1..Len(messages) :
           /\ messages'[i].id = messages[i].id
           /\ Rank(messages'[i].deliveryStatus) >= Rank(messages[i].deliveryStatus) ]_vars

\* a message:delivered has just been handled for a message that is read
C2_DeliveredOnReadMessage ==
  /\ last.event = "message:delivered"
  /\ Len(last.emits) = 1
  /\ last.emits[1].msgId \in 1..Len(messages)
  /\ messages[last.emits[1].msgId].deliveryStatus = "read"

\* C3: in every reachable state the readBy list of every message holds at
\* most one entry per userId.
C3_ReadByOnePerUser ==
  \A m \in 1..Len(messages) :
    \A i, j \in 1..Len(messages[m].readBy) :
      messages[m].readBy[i].userId = messages[m].readBy[j].userId => i = j

\* a user whose read is followed in readBy by another user's read has just
\* sent message:read for the same message again
C3_RepeatedReadInterleaved ==
  /\ last.event = "message:read"
  /\ Len(last.emits) = 1
  /\ last.emits[1].msgId \in 1..Len(messages)
  /\ Len(messages[last.emits[1].msgId].readBy) = 2
  /\ messages[last.emits[1].msgId].readBy[1].userId = sockUser[last.socket]

\* the emits of the last handler that are isTyping=false typing:indicators
StopIndicators(l) ==
  {i \in 1..Len(l.emits) : l.emits[i].name = "typing:indicator" /\ ~l.emits[i].isTyping}

C5_DisconnectStopsAllTyping ==
  [][ ( last'.event = "disconnect" /\ sockUser[last'.socket] # NoUser )
      => /\ \A e \in typingUsers' : e.userId # sockUser[last'.socket]
         /\ \A e \in typingUsers : e.userId = sockUser[last'.socket] =>
              \E i \in StopIndicators(last') :
                /\ last'.emits[i].userId = e.userId
                /\ last'.emits[i].groupId = e.groupId ]_vars

\* C6: a typing:stop for a (user, conversation) with no typing entry changes
\* nothing: the typing map is unchanged, nothing is emitted and every
\* pending expiry timer stays armed.
C6_StopWithoutEntryChangesNothing ==
  [][ ( /\ last'.event = "typing:stop"
        /\ sockUser[last'.socket] # NoUser
        /\ Entries(sockUser[last'.socket], last'.groupId) = {} )
      => /\ typingUsers' = typingUsers
         /\ last'.emits = <<>>
         /\ typingTimer' = typingTimer ]_vars

\* the Message a successful message:send of connection s appends
Sent(s) ==
  [id |-> Len(messages) + 1, content |-> 1, senderId |-> sockUser[s],
   groupId |-> NoGroup, timestamp |-> now, messageType |-> "text",
   deliveryStatus |-> "delivered", readBy |-> <<>>]

\* C7 as stated: with maxMessages=3 and timeWindow=1000, a send is admitted
\* inside the window while fewer than 3 were admitted in it and rejected
\* otherwise, and a send at any time 1000 ms or more after the window start
\* (exactly 1000 ms included) is admitted with the counter reset.
C7_AdmittedFromWindowEnd ==
  [][ last'.event = "message:send" =>
        LET s == last'.socket IN
        IF now >= WindowStart(s) + 1000
        THEN last'.ack = "success" /\ rateLimitCount'[s] = 1
        ELSE last'.ack = "success" <=> SentInWindow(s) < 3 ]_vars

\* C7 amended: the window lasts up to and including 1000 ms after its start.
\* A send at most 1000 ms after the window start is admitted exactly when
\* fewer than 3 sends were admitted in the window (a rejected one fails with
\* 'Rate limit exceeded' and stores nothing); a send more than 1000 ms after
\* the window start is admitted, the counter restarts at 1 and the window
\* restarts at the time of that send.
C7_AdmittedAfterWindowEnd ==
  [][ last'.event = "message:send" =>
        LET s == last'.socket IN
        IF now > WindowStart(s) + 1000
        THEN /\ last'.ack = "success"
             /\ rateLimitCount'[s] = 1
             /\ rateLimitReset'[s] = now + 1000
        ELSE /\ last'.ack = "success" <=> SentInWindow(s) < 3
             /\ last'.ack = "success" => rateLimitCount'[s] = SentInWindow(s) + 1
             /\ last'.ack # "success" =>
                  /\ last'.error = "Rate limit exceeded"
                  /\ messages' = messages
                  /\ rateLimitCount'[s] = 3
             /\ rateLimitReset'[s] = rateLimitReset[s] ]_vars

\* a connection that used up its 3 sends in one window has just been
\* admitted again in a later window, its counter back at 1
C7_AdmittedInNewWindow ==
  /\ last.event = "message:send"
  /\ last.ack = "success"
  /\ rateLimitCount[last.socket] = 1
  /\ Cardinality({i \in 1..Len(messages) :
       /\ messages[i].senderId = sockUser[last.socket]
       /\ messages[i].timestamp < WindowStart(last.socket)}) >= 3

\* C8: with maxMessages=5, a send of an anonymous connection inside its rate
\* window succeeds while fewer than 5 of its sends were admitted in the window,
\* and getMessages() then returns what it returned before followed by the new
\* message (send order); a send after 5 admitted ones fails with 'Rate limit
\* exceeded', stores nothing and emits no message:receive.
C8_FiveAdmittedSixthRejected ==
  [][ ( last'.event = "message:send" /\ now <= rateLimitReset[last'.socket] ) =>
        LET s == last'.socket IN
        IF SentInWindow(s) < 5
        THEN /\ last'.ack = "success"
             /\ getMessages(NoGroup)' = Append(getMessages(NoGroup), Sent(s))
             /\ Emitted(last', "message:receive") # {}
        ELSE /\ last'.ack = "failure"
             /\ last'.error = "Rate limit exceeded"
             /\ messages' = messages
             /\ Emitted(last', "message:receive") = {} ]_vars

\* a 6th send inside the window has just been rejected, the 5 earlier ones
\* of the connection being what getMessages() returns for it, in send order
C8_SixthRejected ==
  /\ last.event = "message:send"
  /\ last.error = "Rate limit exceeded"
  /\ LET mine == SelectSeq(getMessages(NoGroup),
                           LAMBDA m : m.senderId = sockUser[last.socket])
     IN /\ Len(mine) = 5
        /\ \A i \in 1..4 : mine[i].id < mine[i + 1].id
        /\ \A i \in 1..5 : mine[i].timestamp >= WindowStart(last.socket)

\* C9: a successful group:create yields a group whose members hold each user
\* id exactly once and whose admins are exactly the creator.
C9_CreatedMembersAreASet ==
  ( last.event = "group:create" /\ last.ack = "success" )
  => /\ NoDuplicates(groups[last.groupId].members)
     /\ groups[last.groupId].admins = <<sockUser[last.socket]>>

\* C10: in every reachable state every admin of every group is a member of
\* it, and right after a successful group:create the creator is both a member
\* and an admin of the new group.
C10_AdminsAreMembers ==
  /\ \A g \in 1..Len(groups) : Range(groups[g].admins) \subseteq Range(groups[g].members)
  /\ ( last.event = "group:create" /\ last.ack = "success" )
     => /\ groups[last.groupId].createdBy = sockUser[last.socket]
        /\ sockUser[last.socket] \in Range(groups[last.groupId].members)
        /\ sockUser[last.socket] \in Range(groups[last.groupId].admins)

\* the creator, the only admin, has just left a group that keeps other members
C10_AdminLeft ==
  /\ last.event = "group:leave"
  /\ last.ack = "success"
  /\ groups[last.groupId].createdBy = sockUser[last.socket]
  /\ groups[last.groupId].admins = <<>>
  /\ groups[last.groupId].members # <<>>

(* ------------------------- rooms and fan-out --------------------------- *)
\* rooms: connections log in, drop, create, join and leave groups while
\* users and the system send to group conversations; rate limiting is off
RoomInit ==
  \E auth \in BOOLEAN :
    InitWith([WithConfig(auth, 2, 2, 2) EXCEPT !.rateLimiting.enabled = FALSE])

RoomNext ==
  \/ \E s \in Sockets : Connection(s)
  \/ \E s \in Sockets, token \in Tokens : AuthLogin(s, token)
  \/ \E s \in Sockets : Disconnect(s)
  \/ \E s \in Sockets, members \in MemberLists : GroupCreate(s, members)
  \/ \E s \in Sockets, g \in GroupIds : GroupJoin(s, g)
  \/ \E s \in Sockets, g \in GroupIds : GroupLeave(s, g)
  \/ \E s \in Sockets, g \in GroupIds : MessageSend(s, [content |-> 1, groupId |-> g])
  \/ \E g \in GroupIds : BroadcastSystemMessage(g)

RoomSpec == RoomInit /\ [][RoomNext]_vars

\* the message:receive emits of a handler that carry a group message
GroupReceives(l) ==
  {i \in Emitted(l, "message:receive") : l.emits[i].groupId # NoGroup}

\* C11: a message:receive for a group message reaches only connections whose
\* bound user is a member of that group when the message is sent.
C11_GroupMessageOnlyToMembers ==
  [][ \A i \in GroupReceives(last') :
        \A t \in last'.emits[i].to :
          IsMember(sockUser[t], last'.emits[i].groupId) ]_vars

\* the open connections bound to user u
ConnectionsOf(u) == {t \in Sockets : sockState[t] = "open" /\ sockUser[t] = u}

\* C12: a member of a new group who has an open connection when the group
\* is created has a connection that is put in the group's room and sent
\* group:joined; a connection in the room stays there while it stays open,
\* bound to the same user and that user stays a member; and every successful
\* send to the group emits message:receive to all connections in the room.
C12_CreationMembersJoinedAndReached ==
  [][ /\ (last'.event = "group:create" /\ last'.ack = "success") =>
           \A m \in Range(groups'[last'.groupId].members) :
             ConnectionsOf(m) # {} =>
               \E t \in ConnectionsOf(m) :
                 /\ last'.groupId \in rooms'[t]
                 /\ \E i \in Emitted(last', "group:joined") :
                      /\ t \in last'.emits[i].to
                      /\ last'.emits[i].groupId = last'.groupId
      /\ \A t \in Sockets, g \in GroupIds :
           ( /\ g \in rooms[t]
             /\ sockState'[t] = "open"
             /\ sockUser'[t] = sockUser[t]
             /\ g \in 1..Len(groups')
             /\ sockUser[t] \in Range(groups'[g].members) )
           => g \in rooms'[t]
      /\ ( /\ last'.event \in {"message:send", "system"}
           /\ last'.ack # "failure"
           /\ last'.groupId # NoGroup )
         => \E i \in GroupReceives(last') :
              /\ last'.emits[i].groupId = last'.groupId
              /\ \A t \in Sockets :
                   (sockState[t] = "open" /\ last'.groupId \in rooms[t])
                   => t \in last'.emits[i].to ]_vars

(* ------------------------------ presence ------------------------------- *)
\* presence: connections are admitted, log in (again, or as a user another
\* connection holds), ask for the online list and drop
PresenceInit == \E auth \in BOOLEAN : InitWith(WithConfig(auth, 2, 2, 2))

PresenceNext ==
  \/ \E s \in Sockets : Connection(s)
  \/ \E s \in Sockets, token \in Tokens : AuthLogin(s, token)
  \/ \E s \in Sockets : StatusGetOnline(s)
  \/ \E s \in Sockets : Disconnect(s)

PresenceSpec == PresenceInit /\ [][PresenceNext]_vars

\* users.filter(user => user.isOnline) over a users map
OnlineIn(us) == {u \in UserIds : us[u].known /\ us[u].isOnline}

\* C13: the disconnect of a bound connection leaves its user offline and
\* without a binding, and emits status:offline and then a status:update that
\* omits the user; every online list handed out (status:update, and the reply
\* to status:get_online) is exactly the set of users whose isOnline is true
\* when the handler emits it; and an offline user becomes online again only
\* by being registered on a connection (auth:login or anonymous admission).
C13_OfflineBeforeBroadcast ==
  [][ /\ \A i \in Emitted(last', "status:update") \cup Emitted(last', "status:get_online") :
           last'.emits[i].users = OnlineIn(users')
      /\ (last'.event = "disconnect" /\ sockUser[last'.socket] # NoUser) =>
           LET u == sockUser[last'.socket] IN
             /\ ~users'[u].isOnline
             /\ userSockets'[u] = 0
             /\ \E i \in Emitted(last', "status:offline"), j \in Emitted(last', "status:update") :
                  /\ last'.emits[i].userId = u
                  /\ i < j
                  /\ u \notin last'.emits[j].users
                  /\ last'.socket \notin last'.emits[i].to \cup last'.emits[j].to
      /\ \A u \in UserIds :
           (u \notin OnlineIn(users) /\ u \in OnlineIn(users')) =>
             /\ last'.event \in {"auth:login", "connection"}
             /\ sockUser'[last'.socket] = u ]_vars

\* a connection dropped while another user stays online: the status:update of
\* the disconnect reaches the connection that is left and lists that user only
C13_DisconnectAnnounced ==
  /\ last.event = "disconnect"
  /\ sockUser[last.socket] # NoUser
  /\ \E j \in Emitted(last, "status:update") :
       /\ last.emits[j].to # {}
       /\ last.emits[j].users # {}
       /\ sockUser[last.socket] \notin last.emits[j].users

\* C14: no two open connections are bound to the same user id.
C14_OneConnectionPerUser ==
  \A s, t \in Sockets :
    ( /\ s # t
      /\ sockState[s] = "open" /\ sockState[t] = "open"
      /\ sockUser[s] # NoUser )
    => sockUser[s] # sockUser[t]

(* ----------------------------- rejections ------------------------------ *)
\* rejections: connections with and without a user send valid and invalid
\* payloads to any conversation, one message per rate-limit window, while
\* groups are created and users type
RejectInit == \E auth \in BOOLEAN : InitWith(WithConfig(auth, 2, 1, 2))

RejectNext ==
  \/ \E s \in Sockets : Connection(s)
  \/ \E s \in Sockets, token \in Tokens : AuthLogin(s, token)
  \/ \E s \in Sockets, data \in Payloads : MessageSend(s, data)
  \/ \E s \in Sockets : GroupCreate(s, <<>>)
  \/ \E s \in Sockets : TypingStart(s, NoGroup)

RejectSpec == RejectInit /\ [][RejectNext]_vars

\* the three rejections message:send makes before it builds the message
EarlyRejections == {"User not authenticated", "Rate limit exceeded", "Validation error"}

\* C15: a message:send rejected for the lack of a user, by the rate limiter
\* or by validation stores nothing, emits no message:receive and leaves
\* users, groups and typing state as they were; a connection without a user
\* and a connection whose window is full are rejected for that reason, and no
\* stored message has a content that fails validation.
C15_EarlyRejectionHasNoEffect ==
  [][ last'.event = "message:send" =>
        LET s == last'.socket IN
        /\ sockUser[s] = NoUser => last'.error = "User not authenticated"
        /\ ( /\ sockUser[s] # NoUser
             /\ config.rateLimiting.enabled
             /\ now <= rateLimitReset[s]
             /\ rateLimitCount[s] >= config.rateLimiting.maxMessages )
           => last'.error = "Rate limit exceeded"
        /\ \A i \in 1..Len(messages') : ValidMessage(messages'[i])
        /\ last'.error \in EarlyRejections =>
             /\ last'.ack = "failure"
             /\ messages' = messages
             /\ Emitted(last', "message:receive") = {}
             /\ users' = users
             /\ userSockets' = userSockets
             /\ groups' = groups
             /\ typingUsers' = typingUsers
             /\ typingTimer' = typingTimer ]_vars

\* a send rejected by the rate limiter while a message and a group are
\* stored and a user is typing
C15_RejectedWithStateAround ==
  /\ last.event = "message:send"
  /\ last.error = "Rate limit exceeded"
  /\ messages # <<>>
  /\ groups # <<>>
  /\ typingUsers # {}

(* ------------------------------- history ------------------------------- *)
\* history: with authentication on and a history limit one below the number
\* of messages stored, users send to any conversation before and after the
\* clock moves on, groups are created and joined, and connections log in
HistoryLimit == MaxMsgs - 1

HistoryInit ==
  InitWith([WithConfig(TRUE, 2, 2, 2) EXCEPT !.maxMessageHistory = HistoryLimit,
                                             !.rateLimiting.enabled = FALSE])

HistoryNext ==
  \/ \E s \in Sockets : Connection(s)
  \/ \E s \in Sockets, token \in Tokens : AuthLogin(s, token)
  \/ \E s \in Sockets, g \in Conversations : MessageSend(s, [content |-> 1, groupId |-> g])
  \/ \E s \in Sockets : GroupCreate(s, <<>>)
  \/ \E s \in Sockets, g \in GroupIds : GroupJoin(s, g)
  \/ Tick(1, 1)

HistorySpec == HistoryInit /\ [][HistoryNext]_vars

\* message a is older than message b: smaller timestamp, or the same
\* timestamp and stored earlier (ids are given in storing order)
Older(a, b) ==
  \/ messages[a].timestamp < messages[b].timestamp
  \/ messages[a].timestamp = messages[b].timestamp /\ a < b

\* the stored messages of conversation c
StoredIn(c) == {i \in 1..Len(messages) : messages[i].groupId = c}

\* the conversations whose messages sendMessageHistory collects for user u
VisibleTo(u) == {NoGroup} \cup {g \in 1..Len(groups) : IsMember(u, g)}

Min(a, b) == IF a <= b THEN a ELSE b

\* list holds exactly the Min(n, |pool|) newest messages of pool, oldest first
NewestOf(list, pool, n) ==
  /\ Len(list) = Min(n, Cardinality(pool))
  /\ Range(list) \subseteq pool
  /\ \A i, j \in 1..Len(list) : i < j => Older(list[i], list[j])
  /\ \A k \in pool \ Range(list) : \A i \in 1..Len(list) : Older(k, list[i])

\* the message:history list pushed by the login that ran last
Pushed == last.emits[CHOOSE i \in Emitted(last, "message:history") : TRUE].list

\* a successful login has just pushed its history
HistoryPushed ==
  /\ last.event = "auth:login"
  /\ last.ack = "success"
  /\ Emitted(last, "message:history") # {}

QueryInit ==
  InitWith([WithConfig(FALSE, 2, 2, 2) EXCEPT !.rateLimiting.enabled = FALSE])

QueryNext ==
  \/ \E s \in Sockets : Connection(s)
  \/ \E s \in Sockets, g \in Conversations :
       MessageSendCap(s, [content |-> 1, groupId |-> g], MaxMsgs + 1)
  \/ \E g \in Conversations : BroadcastSystemMessage(g)
  \/ \E g \in Conversations : GetMessages(g)
  \/ Tick(1, MaxTime)

QuerySpec == QueryInit /\ [][QueryNext]_vars

\* the array returned by the getMessages call that ran last, by message id
Returned == last.emits[1].list

\* C17: getMessages(groupId) changes no state and returns exactly the stored
\* messages of that conversation (the global one for no argument), each
\* once, in ascending timestamp order with equal timestamps in storing
\* order; a call that follows a call for the same conversation returns the
\* same array.
C17_GetMessagesFiltersAndSorts ==
  [][ \A g \in Conversations :
        (last'.event = "getMessages" /\ last'.groupId = g) =>
          LET list == last'.emits[1].list IN
          /\ UNCHANGED <<config, now, sockVars, users, userSockets, messages,
                         groups, typingUsers>>
          /\ Range(list) = StoredIn(g)
          /\ Len(list) = Cardinality(StoredIn(g))
          /\ \A i, j \in 1..Len(list) : i < j => Older(list[i], list[j])
          /\ (last.event = "getMessages" /\ last.groupId = g) => list = Returned ]_vars

\* a read of a conversation that holds two messages of one timestamp while
\* the other conversation holds a message too
C17_ReadWithTies ==
  /\ last.event = "getMessages"
  /\ Len(Returned) = 2
  /\ messages[Returned[1]].timestamp = messages[Returned[2]].timestamp
  /\ Len(messages) > 2

\* C18: the number of stored messages never exceeds maxMessageHistory.
C18_StoreWithinHistoryLimit ==
  Len(messages) <= config.maxMessageHistory

(* --------------------------- acknowledgments --------------------------- *)
\* the events a client emits with a callback
AckEvents == {"auth:login", "message:send", "group:create", "group:join", "group:leave"}

\* acknowledgments: with authentication and groups each on or off,
\* connections with and without a user emit every request event, with valid
\* and invalid payloads and tokens, one message per rate-limit window
AckInit ==
  \E auth \in BOOLEAN, grp \in BOOLEAN :
    InitWith([WithConfig(auth, 2, 1, 2) EXCEPT !.enableGroups = grp])

AckNext ==
  \/ \E s \in Sockets : Connection(s)
  \/ \E s \in Sockets, token \in Tokens : AuthLogin(s, token)
  \/ \E s \in Sockets, data \in Payloads : MessageSend(s, data)
  \/ \E s \in Sockets : GroupCreate(s, <<>>)
  \/ \E s \in Sockets, g \in GroupIds : GroupJoin(s, g)
  \/ \E s \in Sockets, g \in GroupIds : GroupLeave(s, g)
  \/ \E s \in Sockets, e \in AckEvents : Unhandled(e, s)

AckSpec == AckInit /\ [][AckNext]_vars

\* the handler that ran last acknowledged once, with success or with a
\* failure that names its error, and a failure left the connection open and
\* presence as it was
AnsweredOnce ==
  /\ last'.ack \in {"success", "failure"}
  /\ last'.ack = "success" <=> last'.error = ""
  /\ last'.ack = "failure" =>
       /\ sockState' = sockState
       /\ sockUser' = sockUser
       /\ users' = users
       /\ userSockets' = userSockets

\* C19 (as stated): every auth:login, message:send, group:create, group:join
\* and group:leave event is acknowledged exactly once, with success or with
\* a failure carrying an error, and a failed request neither drops the
\* connection nor changes presence.
C19_EveryRequestAnswered ==
  [][ last'.event \in AckEvents => AnsweredOnce ]_vars

\* C19 (amended): the same for every such event whose listener the
\* configuration registers; an event of a feature that is switched off is
\* not answered at all and changes nothing.
C19_RegisteredRequestAnswered ==
  [][ last'.event \in AckEvents =>
        IF Registered(last'.event)
        THEN AnsweredOnce
        ELSE /\ last'.ack = "none"
             /\ UNCHANGED <<sockVars, users, userSockets, messages, groups, typingUsers>> ]_vars

\* a group:join for a group that does not exist, acknowledged as a failure
\* while a message is stored
C19_FailureAcknowledged ==
  /\ last.event = "group:join"
  /\ last.ack = "failure"
  /\ last.error = "Group not found"
  /\ sockUser[last.socket] # NoUser
  /\ messages # <<>>

(* ---------------------------- authentication --------------------------- *)
\* authentication: with authentication on and rate limiting off,
\* connections with and without a user send global messages, create groups
\* and start typing, and connections without a user emit every other event
\* too; MaxAuthMsgs messages are stored at most
MaxAuthMsgs == MaxMsgs - 1

AuthInit ==
  InitWith([WithConfig(TRUE, 2, 2, 2) EXCEPT !.rateLimiting.enabled = FALSE])

AuthNext ==
  \/ \E s \in Sockets : Connection(s)
  \/ \E s \in Sockets, token \in Tokens : AuthLogin(s, token)
  \/ \E s \in Sockets : MessageSendCap(s, ValidGlobal, MaxAuthMsgs)
  \/ \E s \in Sockets : GroupCreate(s, <<>>)
  \/ \E s \in Sockets : TypingStart(s, NoGroup)
  \/ \E s \in Sockets, id \in 1..MaxAuthMsgs : sockUser[s] = NoUser /\ MessageDelivered(s, id)
  \/ \E s \in Sockets, id \in 1..MaxAuthMsgs : sockUser[s] = NoUser /\ MessageRead(s, id)
  \/ \E s \in Sockets, g \in GroupIds : sockUser[s] = NoUser /\ GroupJoin(s, g)
  \/ \E s \in Sockets, g \in GroupIds : sockUser[s] = NoUser /\ GroupLeave(s, g)
  \/ \E s \in Sockets : sockUser[s] = NoUser /\ TypingStop(s, NoGroup)

AuthSpec == AuthInit /\ [][AuthNext]_vars

\* the events that are refused with an acknowledgment, and those that are
\* dropped in silence, when the connection has no user
RefusedEvents == {"message:send", "group:create", "group:join", "group:leave"}
IgnoredEvents == {"typing:start", "typing:stop", "message:delivered", "message:read"}

C21_HistoryOnEnteringActive ==
  [][ ( /\ config.messageHistory
        /\ last'.event \in {"connection", "auth:login"}
        /\ last'.ack # "failure"
        /\ sockUser'[last'.socket] # NoUser )
      => /\ Cardinality(Emitted(last', "message:history")) = 1
         /\ \A i \in Emitted(last', "message:history") :
              last'.emits[i].to = {last'.socket} ]_vars

\* C22: a connection that gets a user who is a member of a group (by logging
\* in or by being admitted), and a connection whose group:join succeeds, is
\* in the group's room afterwards.
C22_MemberJoinedOnConnectOrJoin ==
  [][ /\ ( /\ last'.event \in {"connection", "auth:login"}
           /\ last'.ack # "failure"
           /\ sockUser'[last'.socket] # NoUser )
         => \A g \in 1..Len(groups) :
              sockUser'[last'.socket] \in Range(groups[g].members)
              => g \in rooms'[last'.socket]
      /\ (last'.event = "group:join" /\ last'.ack = "success")
         => last'.groupId \in rooms'[last'.socket] ]_vars

(* ----------------------------- group sends ----------------------------- *)
\* group sends: connections send valid messages to, join and leave the
\* groups that can exist and one group id that never does, while groups are
\* created; rate limiting is off
MissingGroup == MaxGroups + 1

GroupSendInit ==
  \E auth \in BOOLEAN :
    InitWith([WithConfig(auth, 2, 2, 2) EXCEPT !.rateLimiting.enabled = FALSE])

GroupSendNext ==
  \/ \E s \in Sockets : Connection(s)
  \/ \E s \in Sockets, token \in Tokens : AuthLogin(s, token)
  \/ \E s \in Sockets, g \in GroupIds \cup {MissingGroup} :
       MessageSend(s, [content |-> 1, groupId |-> g])
  \/ \E s \in Sockets : GroupCreate(s, <<>>)
  \/ \E s \in Sockets, g \in GroupIds \cup {MissingGroup} : GroupJoin(s, g)
  \/ \E s \in Sockets, g \in GroupIds \cup {MissingGroup} : GroupLeave(s, g)

GroupSendSpec == GroupSendInit /\ [][GroupSendNext]_vars

\* handler record l is a message:send that got as far as the group check
\* and was rejected there
RejectedAtGroup(l) ==
  /\ l.event = "message:send"
  /\ l.groupId # NoGroup
  /\ l.ack = "failure"
  /\ l.error \notin EarlyRejections

Occurrences(seq, u) == Cardinality({i \in 1..Len(seq) : seq[i] = u})

\* C24: a successful group:join by a user who is already a member leaves
\* the group store as it was; any successful group:join leaves the user a
\* member, adds at most the one entry that was missing and changes no
\* admins, so that a second join changes nothing.
C24_JoinIsIdempotent ==
  [][ (last'.event = "group:join" /\ last'.ack = "success") =>
        LET u == sockUser[last'.socket]
            g == last'.groupId
        IN /\ IsMember(u, g) => groups' = groups
           /\ u \in Range(groups'[g].members)
           /\ Occurrences(groups'[g].members, u)
                = IF IsMember(u, g) THEN Occurrences(groups[g].members, u) ELSE 1
           /\ groups'[g].admins = groups[g].admins
           /\ Len(groups') = Len(groups) ]_vars

\* a group:join by the group's admin, who has been a member since creation,
\* in a group with two different members
C24_MemberJoinedAgain ==
  /\ last.event = "group:join"
  /\ last.ack = "success"
  /\ sockUser[last.socket] \in Range(groups[last.groupId].admins)
  /\ Cardinality(Range(groups[last.groupId].members)) > 1

\* C25: a group:join or group:leave of a connection with a user that names a
\* group id that does not exist is acknowledged with the failure 'Group not
\* found', emits nothing and leaves the group store and every connection's
\* rooms as they were.
C25_MissingGroupChangesNothing ==
  [][ ( /\ last'.event \in {"group:join", "group:leave"}
        /\ sockUser[last'.socket] # NoUser
        /\ last'.groupId \notin 1..Len(groups) )
      => /\ last'.ack = "failure"
         /\ last'.error = "Group not found"
         /\ last'.emits = <<>>
         /\ groups' = groups
         /\ rooms' = rooms ]_vars

\* a group:leave naming the missing group id by a connection that is in the
\* room of an existing group
C25_MissingGroupLeft ==
  /\ last.event = "group:leave"
  /\ last.groupId = MissingGroup
  /\ last.error = "Group not found"
  /\ groups # <<>>
  /\ rooms[last.socket] # {}

\* C26: a successful group:leave takes every entry of the leaving user out
\* of the group's members and admins and leaves the other entries, in their
\* order, and every other group as they were; and no step removes a group
\* or changes which group an id names.
C26_LeaveRemovesOnlyTheUser ==
  [][ /\ Len(groups') >= Len(groups)
      /\ \A g \in 1..Len(groups) :
           /\ groups'[g].id = groups[g].id
           /\ groups'[g].createdBy = groups[g].createdBy
      /\ (last'.event = "group:leave" /\ last'.ack = "success") =>
           LET u == sockUser[last'.socket]
               g == last'.groupId
           IN /\ Len(groups') = Len(groups)
              /\ u \notin Range(groups'[g].members)
              /\ u \notin Range(groups'[g].admins)
              /\ groups'[g].members = SelectSeq(groups[g].members, LAMBDA m : m # u)
              /\ groups'[g].admins = SelectSeq(groups[g].admins, LAMBDA m : m # u)
              /\ \A h \in 1..Len(groups) : h # g => groups'[h] = groups[h] ]_vars

\* the last member has left and the group is still in the store, empty
C26_EmptyGroupKept ==
  /\ last.event = "group:leave"
  /\ last.ack = "success"
  /\ last.groupId \in 1..Len(groups)
  /\ groups[last.groupId].members = <<>>
  /\ groups[last.groupId].admins = <<>>

\* C27: after a message:read of a connection with a user for a stored
\* message, the message's deliveryStatus is read and its readBy has an entry
\* of that user, whatever the status and readBy were before.
C27_ReadMarksRead ==
  [][ (last'.event = "message:read" /\ sockUser[last'.socket] # NoUser) =>
        \A i \in Emitted(last', "message:read") :
          LET id == last'.emits[i].msgId IN
          id \in 1..Len(messages) =>
            /\ last'.emits[i].userId = sockUser[last'.socket]
            /\ messages'[id].deliveryStatus = "read"
            /\ \E k \in 1..Len(messages'[id].readBy) :
                 messages'[id].readBy[k].userId = sockUser[last'.socket]
            /\ Len(messages') = Len(messages) ]_vars

\* a read of a user's group message that was stored with status sent, while
\* another message has been read by two users
C27_SentMessageRead ==
  /\ last.event = "message:read"
  /\ Len(last.emits) = 1
  /\ last.emits[1].msgId \in 1..Len(messages)
  /\ messages[last.emits[1].msgId].groupId # NoGroup
  /\ messages[last.emits[1].msgId].senderId # SystemId
  /\ messages[last.emits[1].msgId].deliveryStatus = "read"
  /\ Len(messages[last.emits[1].msgId].readBy) = 1
  /\ \E m \in 1..Len(messages) : Len(messages[m].readBy) = 2

(* ------------------------------ lifetime ------------------------------- *)
\* lifetime: connections are admitted, log in and drop while time passes
LifetimeInit == \E auth \in BOOLEAN : InitWith(WithConfig(auth, 2, 2, 2))

LifetimeNext ==
  \/ \E s \in Sockets : Connection(s)
  \/ \E s \in Sockets, token \in Tokens : AuthLogin(s, token)
  \/ \E s \in Sockets : Disconnect(s)
  \/ Tick(1, MaxTime)

LifetimeSpec == LifetimeInit /\ [][LifetimeNext]_vars

\* C28: no step removes a user from the user store; the disconnect of a
\* connection with a user leaves that user stored, offline and with lastSeen
\* at the time of the disconnect; and an offline user becomes online only by
\* being registered on a connection.
C28_UsersKeptAndMarkedOffline ==
  [][ /\ \A u \in UserIds : users[u].known => users'[u].known
      /\ (last'.event = "disconnect" /\ sockUser[last'.socket] # NoUser) =>
           LET u == sockUser[last'.socket] IN
             /\ users'[u].known
             /\ ~users'[u].isOnline
             /\ users'[u].lastSeen = now
             /\ \A v \in UserIds : v # u => users'[v] = users[v]
      /\ \A u \in UserIds :
           (users[u].known /\ ~users[u].isOnline /\ users'[u].isOnline) =>
             /\ last'.event \in {"auth:login", "connection"}
             /\ last'.ack # "failure"
             /\ sockUser'[last'.socket] = u ]_vars

\* a connection dropped after time has passed, while another user is online
C28_DroppedLater ==
  /\ last.event = "disconnect"
  /\ sockUser[last.socket] # NoUser
  /\ users[sockUser[last.socket]].lastSeen = now
  /\ now > 0
  /\ \E v \in UserIds : users[v].isOnline

\* rate limiting switched off: a limit of one message per 1000 ms is
\* configured but not enabled, and anonymous connections send valid global
\* messages while time passes
RateOffInit ==
  InitWith([WithConfig(FALSE, 3000, 1, 1000) EXCEPT !.rateLimiting.enabled = FALSE])

RateOffSpec == RateOffInit /\ [][RateNext]_vars

\* C29: with rateLimiting.enabled false no message:send is rejected with
\* 'Rate limit exceeded': every valid send of a connection with a user is
\* acknowledged as a success and stored, and no rate-limit counter moves.
C29_DisabledLimiterAdmitsAll ==
  [][ (~config.rateLimiting.enabled /\ last'.event = "message:send") =>
        /\ last'.error # "Rate limit exceeded"
        /\ sockUser[last'.socket] # NoUser =>
             /\ last'.ack = "success"
             /\ Len(messages') = Len(messages) + 1
        /\ rateLimitCount' = rateLimitCount
        /\ rateLimitReset' = rateLimitReset ]_vars

\* one connection has sent more messages at one instant than maxMessages
C29_MoreThanLimitAdmitted ==
  /\ ~config.rateLimiting.enabled
  /\ last.event = "message:send"
  /\ last.ack = "success"
  /\ \E t \in 0..Horizon :
       Cardinality({i \in 1..Len(messages) :
                      /\ messages[i].senderId = sockUser[last.socket]
                      /\ messages[i].timestamp = t})
         > config.rateLimiting.maxMessages + 1

(* --------------------------- system messages --------------------------- *)
\* system messages: the embedding application broadcasts to the global
\* conversation, to groups and to a group id that names no group, and reads
\* conversations back, while anonymous connections come, go, create a group
\* and use up their rate limit of one message per window
SystemTargets == Conversations \cup {MissingGroup}

SystemInit == InitWith(WithConfig(FALSE, 2, 1, 2))

SystemNext ==
  \/ \E s \in Sockets : Connection(s)
  \/ \E s \in Sockets : Disconnect(s)
  \/ \E s \in Sockets : MessageSend(s, ValidGlobal)
  \/ \E s \in Sockets : GroupCreate(s, <<>>)
  \/ \E g \in SystemTargets : BroadcastSystemMessage(g)
  \/ \E g \in SystemTargets : GetMessages(g)

SystemSpec == SystemInit /\ [][SystemNext]_vars

\* C30: broadcastSystemMessage can run for every groupId in every state
\* (below the number of messages explored); a call appends exactly one
\* message, with senderId system, messageType system and the given groupId,
\* which getMessages(groupId) returns afterwards, and it neither reads nor
\* moves a connection's rate-limit window.
C30_SystemMessageAlwaysStored ==
  [][ /\ \A g \in SystemTargets :
           Len(messages) < MaxMsgs => ENABLED BroadcastSystemMessage(g)
      /\ last'.event = "system" =>
           /\ Len(messages') = Len(messages) + 1
           /\ SubSeq(messages', 1, Len(messages)) = messages
           /\ messages'[Len(messages')].senderId = SystemId
           /\ messages'[Len(messages')].messageType = "system"
           /\ messages'[Len(messages')].groupId = last'.groupId
           /\ \A g \in SystemTargets :
                last'.groupId = g =>
                  \E i \in 1..Len(getMessages(g)') :
                    getMessages(g)'[i].id = messages'[Len(messages')].id
           /\ rateLimitCount' = rateLimitCount
           /\ rateLimitReset' = rateLimitReset
           /\ UNCHANGED <<users, userSockets, groups, rooms, typingUsers>> ]_vars

\* a system message to a group id that names no group, stored while no
\* connection is open and a connection that has left had used up its window
C30_SystemMessageToNobody ==
  /\ last.event = "system"
  /\ last.groupId = MissingGroup
  /\ OpenSockets = {}
  /\ \E s \in Sockets : rateLimitCount[s] >= config.rateLimiting.maxMessages

(* --------------------------- payload validation ------------------------- *)
\* lengths of content around the two limits of messageSchema
ContentLengths == {0, 1, 10000, 10001}

\* message payloads as a client can send them: content always, groupId
\* absent or '', messageType absent or one of five values, metadata absent,
\* an object or a string, and two payloads with both optional keys
WirePayloads ==
  LET base == [content : ContentLengths, groupId : {NoGroup, EmptyString}]
  IN base
     \cup {[content |-> b.content, groupId |-> b.groupId, messageType |-> t] :
             b \in base, t \in MessageTypes \cup {"video"}}
     \cup {[content |-> b.content, groupId |-> b.groupId, metadata |-> m] :
             b \in base, m \in {"object", "string"}}
     \cup {[content |-> b.content, groupId |-> b.groupId, messageType |-> "text",
            metadata |-> "string"] : b \in base}
     \cup {[content |-> b.content, groupId |-> b.groupId, messageType |-> "video",
            metadata |-> "object"] : b \in base}

\* a call of the exported validateMessage(data); the result is recorded in
\* last: ack is success for isValid true, error is the returned error
ValidateMessage(data) ==
  /\ last' = Ran("validateMessage", 0, data.groupId,
                 IF validateMessage(data).isValid THEN "success" ELSE "failure",
                 validateMessage(data).error, <<>>)
  /\ UNCHANGED <<config, now, sockVars, users, userSockets, messages, groups, typingUsers>>

ValidationInit ==
  InitWith([WithConfig(FALSE, 2, 2, 2) EXCEPT !.rateLimiting.enabled = FALSE])

ValidationNext ==
  \/ \E s \in Sockets : Connection(s)
  \/ \E data \in WirePayloads : ValidateMessage(data)
  \/ \E s \in Sockets, data \in WirePayloads : MessageSendCap(s, data, 1)

ValidationSpec == ValidationInit /\ [][ValidationNext]_vars

\* content is a non-empty string of at most 10000 characters and the
\* messageType, text when absent, is one of text, image, file, system
ContentAndTypeValid(data) ==
  /\ data.content >= 1 /\ data.content <= 10000
  /\ (IF "messageType" \in DOMAIN data THEN data.messageType ELSE "text")
       \in {"text", "image", "file", "system"}

\* the other keys of the payload are valid: groupId is absent or a non-empty
\* string and metadata is absent or an object
OtherKeysValid(data) ==
  /\ data.groupId # EmptyString
  /\ "metadata" \in DOMAIN data => data.metadata = "object"

\* what validateMessage and message:send do with payload data when it is
\* accepted exactly if accepts holds
FollowsRule(data, accepts) ==
  /\ (last'.event = "validateMessage" /\ ValidateMessage(data)) =>
       /\ accepts => last'.ack = "success" /\ last'.error = ""
       /\ ~accepts => last'.ack = "failure" /\ last'.error # ""
  /\ (last'.event = "message:send" /\ sockUser[last'.socket] # NoUser
        /\ MessageSendCap(last'.socket, data, 1)) =>
       /\ accepts => last'.ack = "success" /\ Len(messages') = Len(messages) + 1
       /\ ~accepts => /\ last'.error = "Validation error"
                      /\ messages' = messages

FreshInit == \E auth \in BOOLEAN : InitWith(WithConfig(auth, 2, 2, 2))

FreshNext ==
  \/ \E s \in Sockets : Connection(s)
  \/ \E s \in Sockets, token \in UserIds : AuthLogin(s, token)
  \/ \E s \in Sockets : MessageSend(s, ValidGlobal)
  \/ \E s \in Sockets : GroupCreate(s, <<>>)
  \/ \E g \in Conversations : BroadcastSystemMessage(g)
  \/ GetUsers
  \/ GetGroups
  \/ \E g \in Conversations : GetMessages(g)
  \/ \E s \in Sockets : Disconnect(s)

FreshSpec == FreshInit /\ [][FreshNext]_vars

\* no connection has been made (a connection never returns to idle) and no
\* system message has been broadcast (a broadcast always stores its message)
Untouched ==
  /\ \A s \in Sockets : sockState[s] = "idle"
  /\ \A i \in 1..Len(messages) : messages[i].senderId # SystemId

\* C32: a newly constructed Chatify has no users, no groups and no messages:
\* before any connection, send or system broadcast, getUsers(), getGroups()
\* and getMessages() of every conversation are empty, and a call of one of
\* them returns the empty list.
C32_FreshServerIsEmpty ==
  Untouched =>
    /\ getUsers = {}
    /\ getGroups = <<>>
    /\ \A g \in Conversations : getMessages(g) = <<>>
    /\ last.event \in {"getUsers", "getGroups", "getMessages"} =>
         last.emits[1].users = {} /\ last.emits[1].list = <<>>

\* getUsers() has been called on a server nothing has connected to or
\* broadcast on, and has returned no user
C32_FreshServerQueried ==
  /\ Untouched
  /\ last.event = "getUsers"
  /\ last.emits[1].users = {}

(* ------------------------- expiry of typing entries --------------------- *)
\* C33: in every reachable state every typing entry (user, conversation) has
\* a pending expiry timer, armed on a connection of that user, that will
\* stop that same entry, also when the user is typing in several
\* conversations at once.
C33_EveryEntryHasItsTimer ==
  \A e \in typingUsers :
    \E s \in Sockets : /\ sockUser[s] = e.userId
                       /\ typingTimer[s].armed
                       /\ typingTimer[s].groupId = e.groupId

\* typing of users that log in, so that two connections can be bound to one
\* user; each connection logs in once and types in the global conversation
SharedTypingInit == InitWith(WithConfig(TRUE, 2, 2, 2))

SharedTypingNext ==
  \/ \E s \in Sockets : Connection(s)
  \/ \E s \in Sockets, token \in UserIds : sockUser[s] = NoUser /\ AuthLogin(s, token)
  \/ \E s \in Sockets : Disconnect(s)
  \/ \E s \in Sockets : TypingStart(s, NoGroup)
  \/ \E s \in Sockets : TypingStop(s, NoGroup)
  \/ \E s \in Sockets : TypingTimeout(s)
  \/ Tick(1, MaxTime)

SharedTypingSpec == SharedTypingInit /\ [][SharedTypingNext]_vars

\* C34: an expiry timer never removes a typing entry that a later
\* typing:start re-created for the same user and conversation, on the same or
\* on another connection of the user: an entry removed by an expiry was last
\* started typingTimeout or more before.
C34_ExpiryOnlyAfterLastStart ==
  [][ last'.event = "typing:timeout" =>
        \A e \in typingUsers \ typingUsers' :
          now >= e.timestamp + config.typingTimeout ]_vars

(* ---------------------- several connections of a user ------------------- *)
\* C35: when user u is registered on connection c2 while an earlier
\* connection c1 bound to u is still open, the later disconnect of c1 does
\* not mark u offline, does not remove the binding of u to c2 and emits no
\* status:offline for u.
C35_EarlierDisconnectKeepsUserOnline ==
  [][ \A c1, c2 \in Sockets :
        ( /\ last'.event = "disconnect" /\ last'.socket = c1
          /\ c2 # c1 /\ sockState[c2] = "open"
          /\ sockUser[c1] # NoUser /\ sockUser[c2] = sockUser[c1]
          /\ userSockets[sockUser[c1]] = c2 )
        => /\ users'[sockUser[c1]].isOnline
           /\ userSockets'[sockUser[c1]] = c2
           /\ ~\E i \in 1..Len(last'.emits) :
                 /\ last'.emits[i].name = "status:offline"
                 /\ last'.emits[i].userId = sockUser[c1] ]_vars

\* C36: every user marked online, and every user with a binding, is bound to
\* a connection that is still open: after any sequence of logins and
\* disconnects no user keeps isOnline=true or a binding once every
\* connection that registered them has disconnected.
C36_OnlineUsersHaveLiveConnection ==
  \A u \in UserIds :
    ((users[u].known /\ users[u].isOnline) \/ userSockets[u] # 0)
      => userSockets[u] \in OpenSockets

(* --------------------------- bounds of the limiter ---------------------- *)
\* one message per window of 2 time units, so that two windows and three
\* messages of a connection fit in the horizon
Rate1Init == InitWith(WithConfig(FALSE, 3000, 1, 2))
Rate1Spec == Rate1Init /\ [][RateNext]_vars

\* the number of messages of connection s admitted from time a to time b
AdmittedBetween(s, a, b) ==
  Cardinality({i \in 1..Len(messages) : /\ messages[i].senderId = sockUser[s]
                                        /\ messages[i].timestamp >= a
                                        /\ messages[i].timestamp <= b})

\* C37: for each connection, with rate limiting enabled, the counter never
\* exceeds maxMessages, at most maxMessages sends are admitted in one window
\* (between two consecutive resets), and in any time interval of length
\* timeWindow at most 2 x maxMessages sends are admitted.
C37_AdmitsAreBounded ==
  \A s \in Sockets :
    (config.rateLimiting.enabled /\ sockUser[s] # NoUser) =>
      /\ rateLimitCount[s] <= config.rateLimiting.maxMessages
      /\ SentInWindow(s) <= config.rateLimiting.maxMessages
      /\ \A a \in 0..Horizon :
           AdmittedBetween(s, a, a + config.rateLimiting.timeWindow)
             <= 2 * config.rateLimiting.maxMessages

\* a connection has had 2 x maxMessages sends admitted within an interval
\* shorter than timeWindow, across a window reset
C37_TwiceTheLimitAcrossReset ==
  \E s \in Sockets, a \in 0..Horizon :
    /\ sockUser[s] # NoUser
    /\ AdmittedBetween(s, a, a + config.rateLimiting.timeWindow - 1)
         = 2 * config.rateLimiting.maxMessages

\* C38: a message:send that fails payload validation has no effect on the
\* rate-limit window of its connection: the counter and the reset time are
\* what they were, so the send uses up none of the maxMessages admits.
C38_InvalidSendKeepsWindow ==
  [][ (last'.event = "message:send" /\ last'.error = "Validation error") =>
        /\ rateLimitCount' = rateLimitCount
        /\ rateLimitReset' = rateLimitReset ]_vars

(* ----------------------- history and group membership ------------------- *)
\* logins of users that create, join and leave a group and send to it; the
\* history limit is the default, which no run reaches
MemberHistoryInit ==
  InitWith([WithConfig(TRUE, 2, 2, 2) EXCEPT !.rateLimiting.enabled = FALSE])

MemberHistoryNext ==
  \/ \E s \in Sockets : Connection(s)
  \/ \E s \in Sockets, token \in UserIds : AuthLogin(s, token)
  \/ \E s \in Sockets, g \in Conversations : MessageSend(s, [content |-> 1, groupId |-> g])
  \/ \E s \in Sockets : GroupCreate(s, <<>>)
  \/ \E s \in Sockets, g \in GroupIds : GroupJoin(s, g)
  \/ \E s \in Sockets, g \in GroupIds : GroupLeave(s, g)

MemberHistorySpec == MemberHistoryInit /\ [][MemberHistoryNext]_vars

\* C39: the message:history pushed on a login never contains a message of a
\* group the user is not a member of at that moment: every message in it is
\* global or belongs to a group whose members include the user.
C39_HistoryOnlyOfOwnGroups ==
  HistoryPushed =>
    \A i \in 1..Len(Pushed) :
      \/ messages[Pushed[i]].groupId = NoGroup
      \/ IsMember(sockUser[last.socket], messages[Pushed[i]].groupId)

\* a login that was pushed a history while a group the user does not belong
\* to holds a stored message
C39_ForeignGroupMessageWithheld ==
  /\ HistoryPushed
  /\ Len(Pushed) >= 1
  /\ \E i \in 1..Len(messages) :
       /\ messages[i].groupId # NoGroup
       /\ ~IsMember(sockUser[last.socket], messages[i].groupId)

====
